---- MODULE Spec2Model ----
(***************************************************************************)
(* ZRA Smart Invoice pre-submission validator: the validation and          *)
(* auto-correction engine (src/src/lib/validation.ts), the file pipeline   *)
(* (src/src/lib/fileProcessing.ts) and the upload handler                  *)
(* (src/src/components/FileUpload.tsx, Index.handleFilesSelected).         *)
(*                                                                         *)
(* Decoded values are JavaScript values.  A value is a record tagged by t: *)
(*   undef, null, num (n: the number in thousandths), str (s: the sequence *)
(*   of its characters), bool, arr (a: the elements), obj (f: the function *)
(*   from the own keys to their values).                                   *)
(* Arithmetic is exact decimal arithmetic on thousandths; binary floating  *)
(* point shows only in the 0.01 tolerance test (CentApartExceeds).         *)
(***************************************************************************)
EXTENDS Integers, Sequences, FiniteSets, TLC

----------------------------------------------------------------------------
(* JavaScript values *)

Undef == [t |-> "undef"]
Null == [t |-> "null"]
Num(n) == [t |-> "num", n |-> n]
Str(s) == [t |-> "str", s |-> s]
Bool(b) == [t |-> "bool", b |-> b]
Arr(a) == [t |-> "arr", a |-> a]
Obj(f) == [t |-> "obj", f |-> f]

EmptyMap == [k \in {} |-> Undef]
EmptyObj == Obj(EmptyMap)

\* r[k] of a key map: undefined when k is no own key
Get(f, k) == IF k \in DOMAIN f THEN f[k] ELSE Undef
\* r[k] = v on a key map
Put(f, k, v) == [y \in DOMAIN f \cup {k} |-> IF y = k THEN v ELSE f[y]]
\* an object literal of one key
Obj1(k, v) == Obj(Put(EmptyMap, k, v))
\* input builder: the map f with key k set to v, or without k when v is undefined
With(f, k, v) ==
    IF v = Undef THEN [y \in DOMAIN f \ {k} |-> f[y]] ELSE Put(f, k, v)

\* whole numbers are written in units; Num holds thousandths
Unit == 10 * 100
N(i) == Num(i * Unit)

isObject(v) == v.t = "obj"
isArray(v) == v.t = "arr"
toRecord(v) == IF isObject(v) THEN v.f ELSE EmptyMap

\* v.k for any value v: a property read on a non-object finds nothing
Prop(v, k) == Get(toRecord(v), k)

\* ToBoolean
Truthy(v) ==
    CASE v.t = "undef" -> FALSE
      [] v.t = "null" -> FALSE
      [] v.t = "num" -> v.n # 0
      [] v.t = "str" -> Len(v.s) > 0
      [] v.t = "bool" -> v.b
      [] OTHER -> TRUE

\* a || b
OrElse(a, b) == IF Truthy(a) THEN a ELSE b

----------------------------------------------------------------------------
(* Text *)

Digits == <<"0", "1", "2", "3", "4", "5", "6", "7", "8", "9">>
DigitSet == {Digits[i] : i \in 1..10}
IsDigit(c) == c \in DigitSet
DigitVal(c) == (CHOOSE i \in 1..10 : Digits[i] = c) - 1
DigitChar(d) == Digits[d + 1]

Lower == <<"a","b","c","d","e","f","g","h","i","j","k","l","m",
           "n","o","p","q","r","s","t","u","v","w","x","y","z">>
Upper == <<"A","B","C","D","E","F","G","H","I","J","K","L","M",
           "N","O","P","Q","R","S","T","U","V","W","X","Y","Z">>
UpperChar(c) ==
    IF \E i \in 1..26 : Lower[i] = c
    THEN Upper[CHOOSE i \in 1..26 : Lower[i] = c]
    ELSE c
\* String.prototype.toUpperCase
toUpperCase(s) == [i \in 1..Len(s) |-> UpperChar(s[i])]

IsSpace(c) == c \in {" ", "\n", "\t"}
RECURSIVE TrimLeft(_)
TrimLeft(s) == IF s # <<>> /\ IsSpace(Head(s)) THEN TrimLeft(Tail(s)) ELSE s
RECURSIVE TrimRight(_)
TrimRight(s) ==
    IF s # <<>> /\ IsSpace(s[Len(s)]) THEN TrimRight(SubSeq(s, 1, Len(s) - 1)) ELSE s
\* String.prototype.trim
trim(s) == TrimRight(TrimLeft(s))

\* s.replace(/[^...]/g, ''): the characters of s that are in keep
RECURSIVE KeepChars(_, _)
KeepChars(s, keep) ==
    IF s = <<>> THEN <<>>
    ELSE (IF Head(s) \in keep THEN <<Head(s)>> ELSE <<>>) \o KeepChars(Tail(s), keep)

\* the longest prefix of s made of digits
RECURSIVE DigitPrefix(_)
DigitPrefix(s) ==
    IF s # <<>> /\ IsDigit(Head(s)) THEN <<Head(s)>> \o DigitPrefix(Tail(s)) ELSE <<>>

\* the natural number a digit sequence denotes
RECURSIVE DigitsToNat(_)
DigitsToNat(ds) ==
    IF ds = <<>> THEN 0 ELSE 10 * DigitsToNat(SubSeq(ds, 1, Len(ds) - 1)) + DigitVal(ds[Len(ds)])

\* the decimal digits of a natural number
RECURSIVE NatToDigits(_)
NatToDigits(n) ==
    IF n < 10 THEN <<DigitChar(n)>> ELSE NatToDigits(n \div 10) \o <<DigitChar(n % 10)>>

\* the fraction digits of m thousandths (0 < m < 1000), trailing zeros dropped
FracDigits(m) ==
    IF m % 100 = 0 THEN <<DigitChar(m \div 100)>>
    ELSE IF m % 10 = 0 THEN <<DigitChar(m \div 100), DigitChar((m \div 10) % 10)>>
    ELSE <<DigitChar(m \div 100), DigitChar((m \div 10) % 10), DigitChar(m % 10)>>

\* Number.prototype.toString of n thousandths
NumToStr(n) ==
    LET a == IF n < 0 THEN -n ELSE n
        whole == NatToDigits(a \div Unit)
        frac == IF a % Unit = 0 THEN <<>> ELSE <<".">> \o FracDigits(a % Unit)
    IN (IF n < 0 THEN <<"-">> ELSE <<>>) \o whole \o frac

\* the first three fraction digits as thousandths
FracToMilli(ds) ==
    LET d(i) == IF i <= Len(ds) THEN DigitVal(ds[i]) ELSE 0
    IN 100 * d(1) + 10 * d(2) + d(3)

NaN == [t |-> "nan"]
\* parseFloat of text that holds only ^, digits, '.' and '-': the longest
\* prefix [-]digits[.digits] or [-].digits, NaN when it holds no digit
parseFloat(s) ==
    LET neg == s # <<>> /\ Head(s) = "-"
        r == IF neg THEN Tail(s) ELSE s
        whole == DigitPrefix(r)
        rest == SubSeq(r, Len(whole) + 1, Len(r))
        frac == IF rest # <<>> /\ Head(rest) = "." THEN DigitPrefix(Tail(rest)) ELSE <<>>
        mag == DigitsToNat(whole) * Unit + FracToMilli(frac)
    IN IF whole = <<>> /\ frac = <<>> THEN NaN
       ELSE Num(IF neg THEN -mag ELSE mag)

----------------------------------------------------------------------------
(* Conversions of values to text *)

\* the text of a literal
T_true == <<"t","r","u","e">>
T_false == <<"f","a","l","s","e">>
T_null == <<"n","u","l","l">>
T_undefined == <<"u","n","d","e","f","i","n","e","d">>
T_objectObject == <<"[","o","b","j","e","c","t"," ","O","b","j","e","c","t","]">>

\* the order in which the own keys of a mapping are enumerated (the model's
\* maps keep no insertion order: keys are taken in the order of this list)
KeyOrder == <<"#text", "value", "toString", "LineItem", "Invoice", "Body", "parsererror",
              "InvoiceNumber", "invoiceNumber", "InvoiceNo",
              "Currency", "currency", "CurrencyCode",
              "TPIN", "tpin", "TaxpayerTIN",
              "Date", "date", "InvoiceDate", "TransactionDate",
              "VATRate", "vatRate", "LineItems", "lineItems",
              "TaxableAmount", "taxableAmount", "VATAmount", "vatAmount",
              "GrandTotal", "grandTotal",
              "Quantity", "quantity", "UnitPrice", "unitPrice",
              "LineTotal", "lineTotal", "Description">>
\* Object.keys(f), in order
Keys(f) == SelectSeq(KeyOrder, LAMBDA k : k \in DOMAIN f)

\* Whether String(v) raises a TypeError.  ToString of an object calls its
\* toString and then its valueOf; an own member named toString is data (never
\* callable) and hides Object.prototype.toString, and Object.prototype.valueOf
\* returns the object itself, so no primitive is found.  An array is joined,
\* which converts each element that is neither null nor undefined.
RECURSIVE StringThrows(_)
StringThrows(v) ==
    CASE v.t = "obj" -> "toString" \in DOMAIN v.f
      [] v.t = "arr" -> \E i \in 1..Len(v.a) : StringThrows(v.a[i])
      [] OTHER -> FALSE

\* String(v), for v with ~StringThrows(v)
RECURSIVE String(_)
String(v) ==
    CASE v.t = "str" -> v.s
      [] v.t = "num" -> NumToStr(v.n)
      [] v.t = "bool" -> IF v.b THEN T_true ELSE T_false
      [] v.t = "null" -> T_null
      [] v.t = "undef" -> T_undefined
      [] v.t = "obj" -> T_objectObject
      [] v.t = "arr" ->
           LET el(i) == IF v.a[i].t \in {"null", "undef"} THEN <<>> ELSE String(v.a[i])
               RECURSIVE Join(_)
               Join(i) == IF i > Len(v.a) THEN <<>>
                          ELSE (IF i > 1 THEN <<",">> ELSE <<>>) \o el(i) \o Join(i + 1)
           IN Join(1)

\* JSON.stringify(v) of a decoded value.  A key is written as one symbol (the
\* key itself, between quotes), which is no digit and no separator.
RECURSIVE JSONstringify(_)
JSONstringify(v) ==
    CASE v.t = "str" -> <<"\"">> \o v.s \o <<"\"">>
      [] v.t = "num" -> NumToStr(v.n)
      [] v.t = "bool" -> IF v.b THEN T_true ELSE T_false
      [] v.t = "arr" ->
           LET RECURSIVE Join(_)
               Join(i) == IF i > Len(v.a) THEN <<>>
                          ELSE (IF i > 1 THEN <<",">> ELSE <<>>)
                               \o JSONstringify(v.a[i]) \o Join(i + 1)
           IN <<"[">> \o Join(1) \o <<"]">>
      [] v.t = "obj" ->
           LET ks == Keys(v.f)
               RECURSIVE Join(_)
               Join(i) == IF i > Len(ks) THEN <<>>
                          ELSE (IF i > 1 THEN <<",">> ELSE <<>>)
                               \o <<"\"", ks[i], "\"", ":">>
                               \o JSONstringify(v.f[ks[i]]) \o Join(i + 1)
           IN <<"{">> \o Join(1) \o <<"}">>
      [] OTHER -> T_null

\* typeof v
typeof(v) ==
    CASE v.t = "str" -> <<"s","t","r","i","n","g">>
      [] v.t = "num" -> <<"n","u","m","b","e","r">>
      [] v.t = "bool" -> <<"b","o","o","l","e","a","n">>
      [] v.t = "undef" -> T_undefined
      [] OTHER -> <<"o","b","j","e","c","t">>

\* validation.ts extractPrimitive
extractPrimitive(val) ==
    IF isObject(val)
    THEN IF "#text" \in DOMAIN val.f THEN val.f["#text"]
         ELSE IF Cardinality(DOMAIN val.f) = 1
              THEN LET k == CHOOSE k \in DOMAIN val.f : TRUE
                   IN IF ~isObject(val.f[k]) THEN val.f[k] ELSE val
              ELSE val
    ELSE val

\* parseNumber raises exactly when it converts a value String() cannot convert
parseNumberThrows(value) ==
    value.t \notin {"num", "null", "undef"} /\ StringThrows(value)

NumberChars == DigitSet \cup {"^", ".", "-"}
\* validation.ts parseNumber: a number, or null
parseNumber(value) ==
    IF value.t = "num" THEN value
    ELSE IF value.t \in {"null", "undef"} THEN Null
    ELSE LET num == parseFloat(KeepChars(String(value), NumberChars))
         IN IF num = NaN THEN Null ELSE num

----------------------------------------------------------------------------
(* Field normalizers *)

T_zeroTpin == <<"0","0","0","0","0","0","0","0","0","0">>

\* String.prototype.padEnd(n, '0') and padStart(n, '0')
RECURSIVE padEnd0(_, _)
padEnd0(s, n) == IF Len(s) >= n THEN s ELSE padEnd0(s \o <<"0">>, n)
RECURSIVE padStart0(_, _)
padStart0(s, n) == IF Len(s) >= n THEN s ELSE padStart0(<<"0">> \o s, n)

\* the text a normalizer works on: String(value) of a string or a number,
\* JSON.stringify(value) of anything else
StringValue(value) ==
    IF value.t \in {"str", "num"} THEN String(value) ELSE JSONstringify(value)

\* normalizeTpin with every short run of digits padded on the left
normalizeTpinPadStart(value) ==
    IF value.t \in {"null", "undef"}
    THEN [normalized |-> T_zeroTpin, confidence |-> "low"]
    ELSE LET cleaned == KeepChars(StringValue(value), DigitSet)
         IN IF Len(cleaned) = 10 THEN [normalized |-> cleaned, confidence |-> "high"]
            ELSE IF Len(cleaned) > 10
                 THEN [normalized |-> SubSeq(cleaned, 1, 10), confidence |-> "medium"]
            ELSE IF Len(cleaned) >= 6
                 THEN [normalized |-> padStart0(cleaned, 10),
                       confidence |-> IF Len(cleaned) = 9 THEN "medium" ELSE "low"]
            ELSE [normalized |-> T_zeroTpin, confidence |-> "low"]
\* validation.ts normalizeTpin
normalizeTpin(value) ==
    IF value.t \in {"null", "undef"}
    THEN [normalized |-> T_zeroTpin, confidence |-> "low"]
    ELSE LET cleaned == KeepChars(StringValue(value), DigitSet)
         IN IF Len(cleaned) = 10 THEN [normalized |-> cleaned, confidence |-> "high"]
            ELSE IF Len(cleaned) = 9
                 THEN [normalized |-> <<"0">> \o cleaned, confidence |-> "medium"]
            ELSE IF Len(cleaned) > 10
                 THEN [normalized |-> SubSeq(cleaned, 1, 10), confidence |-> "medium"]
            ELSE IF Len(cleaned) >= 6
                 THEN [normalized |-> padEnd0(cleaned, 10), confidence |-> "low"]
            ELSE [normalized |-> T_zeroTpin, confidence |-> "low"]

\* the current moment, new Date(): its UTC calendar date
Now == [y |-> 2025, m |-> 6, d |-> 15]

IsLeap(y) == (y % 4 = 0 /\ y % 100 # 0) \/ y % 400 = 0
DaysInMonth(y, m) ==
    IF m = 2 THEN (IF IsLeap(y) THEN 29 ELSE 28)
    ELSE IF m \in {4, 6, 9, 11} THEN 30 ELSE 31

\* YYYY-MM-DD of a calendar date
IsoDate(y, m, d) ==
    padStart0(NatToDigits(y), 4) \o <<"-">> \o padStart0(NatToDigits(m), 2)
    \o <<"-">> \o padStart0(NatToDigits(d), 2)
Today == IsoDate(Now.y, Now.m, Now.d)

\* the parts of s between occurrences of sep
RECURSIVE Split(_, _)
Split(s, sep) ==
    IF \E i \in 1..Len(s) : s[i] = sep
    THEN LET i == CHOOSE i \in 1..Len(s) : s[i] = sep /\ \A j \in 1..(i - 1) : s[j] # sep
         IN <<SubSeq(s, 1, i - 1)>> \o Split(SubSeq(s, i + 1, Len(s)), sep)
    ELSE <<s>>

AllDigits(s) == \A i \in 1..Len(s) : IsDigit(s[i])
\* s matches ^(\d{a1,b1})<sep>(\d{a2,b2})<sep>(\d{a3,b3})$
Matches3(s, sep, a1, b1, a2, b2, a3, b3) ==
    LET p == Split(s, sep)
    IN /\ Len(p) = 3
       /\ \A i \in 1..3 : AllDigits(p[i])
       /\ Len(p[1]) \in a1..b1 /\ Len(p[2]) \in a2..b2 /\ Len(p[3]) \in a3..b3

\* the formats of normalizeDate in order: separator, whether the year comes
\* first, and the digit counts of the three groups
DateFormats ==
    << [sep |-> "-", yearFirst |-> TRUE,  a1 |-> 4, b1 |-> 4, a3 |-> 1, b3 |-> 2],
       [sep |-> "/", yearFirst |-> FALSE, a1 |-> 2, b1 |-> 2, a3 |-> 4, b3 |-> 4],
       [sep |-> "-", yearFirst |-> FALSE, a1 |-> 1, b1 |-> 2, a3 |-> 4, b3 |-> 4],
       [sep |-> "/", yearFirst |-> TRUE,  a1 |-> 4, b1 |-> 4, a3 |-> 1, b3 |-> 2],
       [sep |-> ".", yearFirst |-> FALSE, a1 |-> 1, b1 |-> 2, a3 |-> 4, b3 |-> 4] >>

\* new Date("YYYY-MM-DD") is a valid date.  ECMAScript leaves a day past the
\* end of its month to the engine: a strict engine rejects it, a lenient one
\* (day up to 31) rolls it over into the next month.
DateParses(y, m, d, lenient) ==
    /\ m \in 1..12
    /\ d >= 1
    /\ d <= (IF lenient THEN 31 ELSE DaysInMonth(y, m))
\* date <= new Date(), for a date that parses
NotFuture(y, m, d) ==
    LET over == d > DaysInMonth(y, m)
        mm == IF over THEN m + 1 ELSE m
        dd == IF over THEN d - DaysInMonth(y, m) ELSE d
    IN \/ y < Now.y
       \/ y = Now.y /\ mm < Now.m
       \/ y = Now.y /\ mm = Now.m /\ dd <= Now.d

\* the result of format f on text s, or Null when the format does not match or
\* its date is refused
TryFormat(s, f, lenient) ==
    IF ~Matches3(s, f.sep, f.a1, f.b1, 1, 2, f.a3, f.b3) THEN Null
    ELSE LET p == Split(s, f.sep)
             year == IF f.yearFirst THEN p[1] ELSE p[3]
             day == IF f.yearFirst THEN p[3] ELSE p[1]
             y == DigitsToNat(year)
             m == DigitsToNat(p[2])
             d == DigitsToNat(day)
         IN IF /\ DateParses(y, m, d, lenient)
               /\ NotFuture(y, m, d)
               /\ y >= 2000 /\ y <= Now.y + 1
            THEN Str(year \o <<"-">> \o padStart0(p[2], 2) \o <<"-">> \o padStart0(day, 2))
            ELSE Null

\* floor(ds / d) for a digit sequence ds, by long division
RECURSIVE DivDigits(_, _, _, _)
DivDigits(ds, d, q, r) ==
    IF ds = <<>> THEN q
    ELSE LET r1 == r * 10 + DigitVal(Head(ds))
         IN DivDigits(Tail(ds), d, q * 10 + r1 \div d, r1 % d)

RECURSIVE StripZeros(_)
StripZeros(ds) == IF Len(ds) > 1 /\ Head(ds) = "0" THEN StripZeros(Tail(ds)) ELSE ds

\* the calendar date of a day count since 1970-01-01
CivilFromDays(days) ==
    LET z == days + 719468
        era == z \div 146097
        doe == z - era * 146097
        yoe == (doe - doe \div 1460 + doe \div 36524 - doe \div 146096) \div 365
        doy == doe - (365 * yoe + yoe \div 4 - yoe \div 100)
        mp == (5 * doy + 2) \div 153
        d == doy - (153 * mp + 2) \div 5 + 1
        m == IF mp < 10 THEN mp + 3 ELSE mp - 9
        y == yoe + era * 400 + (IF m <= 2 THEN 1 ELSE 0)
    IN IsoDate(y, m, d)

\* the date of a 10 to 13 digit timestamp: parseInt, seconds when the number
\* prints in 10 digits and milliseconds otherwise
TimestampDate(s) ==
    LET ds == StripZeros(s)
        perDay == IF Len(ds) = 10 THEN 86400 ELSE 86400000
    IN CivilFromDays(DivDigits(ds, perDay, 0, 0))

\* validation.ts normalizeDate
normalizeDate(value, lenient) ==
    IF value.t \in {"null", "undef"} THEN [normalized |-> Today, confidence |-> "low"]
    ELSE LET s == trim(StringValue(value))
             hits == SelectSeq(DateFormats, LAMBDA f : TryFormat(s, f, lenient) # Null)
         IN IF hits # <<>>
            THEN [normalized |-> TryFormat(s, hits[1], lenient).s, confidence |-> "high"]
            ELSE IF AllDigits(s) /\ Len(s) \in 10..13
                 THEN [normalized |-> TimestampDate(s), confidence |-> "medium"]
            ELSE [normalized |-> Today, confidence |-> "low"]

----------------------------------------------------------------------------
(* Trees: reading and writing a decoded value at a path.  A path element is *)
(* [k |-> key] into a mapping or [i |-> position] into a sequence.          *)

RECURSIVE GetPath(_, _)
GetPath(v, path) ==
    IF path = <<>> THEN v
    ELSE LET e == Head(path)
         IN IF "k" \in DOMAIN e
            THEN GetPath(Prop(v, e.k), Tail(path))
            ELSE GetPath(v.a[e.i], Tail(path))

RECURSIVE SetPath(_, _, _)
SetPath(v, path, x) ==
    IF path = <<>> THEN x
    ELSE LET e == Head(path)
         IN IF "k" \in DOMAIN e
            THEN Obj(Put(v.f, e.k, SetPath(Prop(v, e.k), Tail(path), x)))
            ELSE Arr([v.a EXCEPT ![e.i] = SetPath(v.a[e.i], Tail(path), x)])

\* JSON.parse(JSON.stringify(v)): a new tree with the same scalars; a member
\* whose value is undefined is dropped
RECURSIVE DeepClone(_)
DeepClone(v) ==
    CASE v.t = "arr" -> Arr([i \in 1..Len(v.a) |-> DeepClone(v.a[i])])
      [] v.t = "obj" ->
           Obj([k \in {y \in DOMAIN v.f : v.f[y].t # "undef"} |-> DeepClone(v.f[k])])
      [] OTHER -> v

----------------------------------------------------------------------------
(* Issues *)

T_missing == <<"m","i","s","s","i","n","g">>
T_REQUIRED == <<"R","E","Q","U","I","R","E","D">>
T_MANUAL == <<"M","A","N","U","A","L","_","R","E","V","I","E","W","_",
              "R","E","Q","U","I","R","E","D">>
T_emptyArray == <<"e","m","p","t","y"," ","a","r","r","a","y">>
T_incomplete == <<"i","n","c","o","m","p","l","e","t","e"," ",
                  "s","t","r","u","c","t","u","r","e">>
T_ZMW == <<"Z","M","W">>
T_ZK == <<"Z","K">>
T_16 == <<"1","6">>
T_zero == <<"0">>

\* types/index.ts ValidationIssue.  The locator of `field` is kept apart: rec
\* is the record number (index + 1) and line the line number (0: none); first
\* is the record number a duplicate message names (0: none)
Issue(severity, field, rec, line, originalValue, fixedValue, autoFixed, confidence, category, first) ==
    [severity |-> severity, field |-> field, rec |-> rec, line |-> line,
     originalValue |-> originalValue, fixedValue |-> fixedValue,
     autoFixed |-> autoFixed, confidence |-> confidence,
     category |-> category, first |-> first]

----------------------------------------------------------------------------
(* zraValidationRules.ts *)

\* ZRA_FIELD_REQUIREMENTS.MANDATORY_INVOICE_FIELDS, each with
\* field.toLowerCase() and field.charAt(0).toLowerCase() + field.slice(1)
MANDATORY_INVOICE_FIELDS ==
    << [name |-> "TPIN", lower |-> "tpin", camel |-> "tPIN"],
       [name |-> "InvoiceDate", lower |-> "invoicedate", camel |-> "invoiceDate"],
       [name |-> "InvoiceNumber", lower |-> "invoicenumber", camel |-> "invoiceNumber"],
       [name |-> "TaxableAmount", lower |-> "taxableamount", camel |-> "taxableAmount"],
       [name |-> "VATAmount", lower |-> "vatamount", camel |-> "vATAmount"],
       [name |-> "GrandTotal", lower |-> "grandtotal", camel |-> "grandTotal"] >>

\* a ?? b
Coalesce(a, b) == IF a.t \in {"null", "undef"} THEN b ELSE a

\* zraValidationRules.ts validateMandatoryFields: the missing fields, in order
validateMandatoryFields(record) ==
    LET value(fld) == Coalesce(Coalesce(Prop(record, fld.name), Prop(record, fld.lower)),
                               Prop(record, fld.camel))
        isMissing(fld) == value(fld).t \in {"undef", "null"} \/ value(fld) = Str(<<>>)
    IN SelectSeq(MANDATORY_INVOICE_FIELDS, isMissing)

\* zraValidationRules.ts validateVATRate: invalid, notice (valid, non-standard)
\* or valid
validateVATRate(rate) ==
    IF rate < 0 \/ rate > 100 * Unit THEN "invalid"
    ELSE IF rate \notin {0, 16 * Unit} THEN "notice"
    ELSE "valid"

----------------------------------------------------------------------------
(* validation.ts validateAndFix: the state of one call *)
(*   data          the decoded value the call was given (the caller's tree) *)
(*   fixedRecords  the elements of the deep copy                            *)
(*   fixedRecord   the mapping the current record's corrections are written *)
(*                 to: part of fixedRecords, or a temporary wrapper         *)
(*   issues        the issue log                                            *)
(*   seen          invoiceNumbersSeen: invoice number -> index first seen   *)
(*   index         the index of the current record (from 0)                 *)
(*   pc            the rule step to run next                                *)

\* The key of a single-key wrapper whose only value is a mapping, as a path
SoleObjectKey(v) ==
    IF isObject(v) /\ Cardinality(DOMAIN v.f) = 1
    THEN LET k == CHOOSE k \in DOMAIN v.f : TRUE
         IN IF isObject(v.f[k]) THEN <<[k |-> k]>> ELSE <<>>
    ELSE <<>>

\* workingData: the top-level wrapper of a single record is removed
workingData(d) == GetPath(d, SoleObjectKey(d))
\* records: the elements of a batch, or the one record
Records(d) == IF isArray(workingData(d)) THEN workingData(d).a ELSE <<workingData(d)>>

\* { value: v } around anything that is no mapping
Wrapped(v) == IF isObject(v) THEN v ELSE Obj1("value", v)

\* the mapping the rules read for record i (from 1), after the per-record unwrap
RecordAt(d, i) ==
    LET r0 == Wrapped(Records(d)[i]) IN GetPath(r0, SoleObjectKey(r0))
\* where that mapping lies in d, for a record that is a mapping
RecordPath(d, i) ==
    SoleObjectKey(d)
    \o (IF isArray(workingData(d)) THEN <<[i |-> i]>> ELSE <<>>)
    \o SoleObjectKey(Wrapped(Records(d)[i]))

\* whether corrections for record i reach fixedRecords, and where
FixedBound(st, i) == isObject(st.fixedRecords[i])
FixedPath(st, i) ==
    LET inner == SoleObjectKey(Wrapped(Records(st.data)[i]))
    IN IF inner # <<>> /\ isObject(GetPath(st.fixedRecords[i], inner)) THEN inner ELSE <<>>
\* fixedRecord as bound at the start of record i
BindFixedRecord(st, i) ==
    LET f0 == Wrapped(st.fixedRecords[i])
        inner == SoleObjectKey(Wrapped(Records(st.data)[i]))
    IN IF inner # <<>> /\ isObject(GetPath(f0, inner)) THEN GetPath(f0, inner) ELSE f0

\* a write to fixedRecord: it lands in fixedRecords unless fixedRecord is the
\* temporary wrapper of a record that is no mapping
WithFixed(st, fr) ==
    LET i == st.index + 1
    IN [st EXCEPT !.fixedRecord = fr,
                  !.fixedRecords =
                      IF FixedBound(st, i)
                      THEN [@ EXCEPT ![i] = SetPath(@, FixedPath(st, i), fr)]
                      ELSE @]

\* the issues put at the front of the log
PushFront(st, iss) == [st EXCEPT !.issues = iss \o @]
\* issues.push(...)
Push(st, iss) == [st EXCEPT !.issues = @ \o iss]
\* on to the next statement
GotoUnlessError(st, pc) ==
    [st EXCEPT !.pc = IF \E j \in 1..Len(st.issues) : st.issues[j].severity = "error"
                      THEN "return" ELSE pc]
Goto(st, pc) == [st EXCEPT !.pc = pc]
Thrown(st) == [st EXCEPT !.pc = "thrown"]
Rec(st) == RecordAt(st.data, st.index + 1)
RecNo(st) == st.index + 1

\* the dedup table at the start of a call (new Map()); prev is what earlier
\* calls left behind, which a fresh table ignores
InvoiceNumbersSeenShared(prev) == prev
invoiceNumbersSeen(prev) == EmptyMap

\* validateAndFix up to the loop: unwrap, deep copy, empty log, fresh table
Begin(d, prev) ==
    LET fixedData == DeepClone(workingData(d))
        st0 == [data |-> d,
                fixedRecords |-> IF isArray(fixedData) THEN fixedData.a ELSE <<fixedData>>,
                fixedRecord |-> EmptyObj,
                issues |-> <<>>,
                seen |-> invoiceNumbersSeen(prev),
                index |-> 0,
                pc |-> "mandatory"]
    IN IF Records(d) = <<>> THEN Goto(st0, "return")
       ELSE [st0 EXCEPT !.fixedRecord = BindFixedRecord(st0, 1)]

\* step 1: the mandatory-field check
MandatoryStep(st) ==
    LET missing == validateMandatoryFields(Rec(st))
        iss == [j \in 1..Len(missing) |->
                  Issue("error", missing[j].name, RecNo(st), 0, Str(T_missing),
                        Str(T_REQUIRED), FALSE, "high", "mandatory", 0)]
    IN Goto(Push(st, iss), "invoiceNumber")

\* invoiceNumbersSeen.set(invoiceNumStr, index)
RememberNothing(seen, invoiceNumStr, index) == seen
Remember(seen, invoiceNumStr, index) == Put(seen, invoiceNumStr, index)

\* step 2: the invoice number and the duplicate check
InvoiceNumberStep(st) ==
    LET record == Rec(st)
        invoiceNumberField ==
            OrElse(OrElse(extractPrimitive(Prop(record, "InvoiceNumber")),
                          extractPrimitive(Prop(record, "invoiceNumber"))),
                   extractPrimitive(Prop(record, "InvoiceNo")))
    IN IF ~Truthy(invoiceNumberField)
       THEN Goto(Push(st, <<Issue("error", "InvoiceNumber", RecNo(st), 0, Str(T_missing),
                                  Str(T_REQUIRED), FALSE, "high", "mandatory", 0)>>),
                 "currency")
       ELSE IF StringThrows(invoiceNumberField) THEN Thrown(st)
       ELSE LET invoiceNumStr == trim(String(invoiceNumberField))
            IN IF invoiceNumStr \in DOMAIN st.seen
               THEN Goto(Push(st, <<Issue("error", "InvoiceNumber", RecNo(st), 0,
                                          Str(invoiceNumStr), Str(T_MANUAL), FALSE,
                                          "high", "duplicate",
                                          st.seen[invoiceNumStr] + 1)>>),
                         "currency")
               ELSE Goto([st EXCEPT !.seen = Remember(@, invoiceNumStr, st.index)], "currency")

\* step 3: the currency
CurrencyStep(st) ==
    LET record == Rec(st)
        currencyField ==
            OrElse(OrElse(extractPrimitive(Prop(record, "Currency")),
                          extractPrimitive(Prop(record, "currency"))),
                   extractPrimitive(Prop(record, "CurrencyCode")))
    IN IF Truthy(currencyField)
       THEN IF StringThrows(currencyField) THEN Thrown(st)
            ELSE LET currencyStr == trim(toUpperCase(String(currencyField)))
                     fieldName == IF Prop(record, "Currency") # Undef THEN "Currency"
                                  ELSE IF Prop(record, "currency") # Undef THEN "currency"
                                  ELSE "CurrencyCode"
                 IN IF currencyStr # T_ZMW /\ currencyStr # T_ZK
                    THEN Goto(Push(WithFixed(st, Obj(Put(st.fixedRecord.f, fieldName,
                                                         Str(T_ZMW)))),
                                   <<Issue("warning", fieldName, RecNo(st), 0,
                                           Str(currencyStr), Str(T_ZMW), TRUE, "high",
                                           "currency", 0)>>),
                              "tpin")
                    ELSE Goto(st, "tpin")
       ELSE Goto(Push(WithFixed(st, Obj(Put(st.fixedRecord.f, "Currency", Str(T_ZMW)))),
                      <<Issue("info", "Currency", RecNo(st), 0, Str(T_missing),
                              Str(T_ZMW), TRUE, "high", "currency", 0)>>),
                 "tpin")

\* step 4: the taxpayer ID
\* a severity that ignores the confidence
tpinSeverityWarning(confidence) == "warning"
\* validation.ts validateAndFix: confidence === 'low' ? 'error' : 'warning'
tpinSeverity(confidence) == IF confidence = "low" THEN "error" ELSE "warning"
\* validation.ts validateAndFix: confidence === 'low' ? 'error' : 'info'
dateSeverity(confidence) == IF confidence = "low" THEN "error" ELSE "info"
TpinStep(st) ==
    LET record == Rec(st)
        tpinField == IF Prop(record, "TPIN") # Undef THEN "TPIN"
                     ELSE IF Prop(record, "tpin") # Undef THEN "tpin"
                     ELSE "TaxpayerTIN"
        tpinValue == extractPrimitive(Prop(record, tpinField))
        n == normalizeTpin(tpinValue)
    IN IF Prop(record, tpinField) # Undef /\ Str(n.normalized) # tpinValue
       THEN Goto(Push(WithFixed(st, Obj(Put(st.fixedRecord.f, tpinField,
                                            Str(n.normalized)))),
                      <<Issue(tpinSeverity(n.confidence),
                              tpinField, RecNo(st), 0, tpinValue, Str(n.normalized),
                              TRUE, n.confidence, "tpin", 0)>>),
                 "dates")
       ELSE Goto(st, "dates")

DateFields == <<"Date", "date", "InvoiceDate", "TransactionDate">>

\* step 5: the dates, one alias after the other
RECURSIVE DatesFrom(_, _, _)
DatesFrom(st, j, lenient) ==
    IF j > Len(DateFields) THEN st
    ELSE LET dateField == DateFields[j]
             raw == Prop(Rec(st), dateField)
             n == normalizeDate(extractPrimitive(raw), lenient)
         IN IF Truthy(raw) /\ Str(n.normalized) # raw
            THEN DatesFrom(Push(WithFixed(st, Obj(Put(st.fixedRecord.f, dateField,
                                                      Str(n.normalized)))),
                                <<Issue(dateSeverity(n.confidence),
                                        dateField, RecNo(st), 0, raw, Str(n.normalized),
                                        TRUE, n.confidence, "date", 0)>>),
                           j + 1, lenient)
            ELSE DatesFrom(st, j + 1, lenient)
DatesStep(st, lenient) == Goto(DatesFrom(st, 1, lenient), "vatRate")

\* step 6: the VAT rate
VatRateStep(st) ==
    LET record == Rec(st)
        vatField == IF Prop(record, "VATRate") # Undef THEN "VATRate" ELSE "vatRate"
        raw == Prop(record, vatField)
    IN IF parseNumberThrows(extractPrimitive(raw)) THEN Thrown(st)
       ELSE LET vatValue == parseNumber(extractPrimitive(raw))
            IN IF vatValue = Null \/ vatValue.n < 0 \/ vatValue.n > 100 * Unit
               THEN IF StringThrows(OrElse(raw, Str(T_missing))) THEN Thrown(st)
                    ELSE Goto(Push(WithFixed(st, Obj(Put(st.fixedRecord.f, vatField, N(16)))),
                                   <<Issue("warning", vatField, RecNo(st), 0,
                                           Str(String(OrElse(raw, Str(T_missing)))),
                                           Str(T_16), TRUE, "high", "vat", 0)>>),
                              "lineItems")
               ELSE IF vatValue.n # 0 /\ vatValue.n # 16 * Unit
               THEN Goto(Push(st, <<Issue("info", vatField, RecNo(st), 0,
                                          Str(String(vatValue)), Str(String(vatValue)),
                                          FALSE, "high", "vat", 0)>>),
                         "lineItems")
               ELSE Goto(st, "lineItems")

\* Math.round(x * 100) / 100 in thousandths, for x = p / q with q a positive
\* multiple of 100: Math.round rounds a half up
Round2(p, q) == 10 * ((p + (q \div 100) \div 2) \div (q \div 100))

\* Math.abs(a - b) > 0.01 for two amounts that are exactly 0.01 apart as
\* decimals: the doubles nearest to a and b are not 0.01 apart, and the test
\* compares their difference with the double nearest to 0.01.  The outcome, by
\* IEEE 754 arithmetic, for the amounts (in thousandths) the inputs hold:
\* 20.01 - 20 is 0.010000000000001563 and 20 - 19.99 is 0.010000000000001563
CentApartExceeds ==
    [pair \in {<<20010, 20000>>, <<19990, 20000>>} |-> TRUE]

\* currentTotal === null || Math.abs(currentTotal - calculatedTotal) > 0.01
Far(cur, calc) ==
    \/ cur = Null
    \/ cur.n - calc > 10
    \/ calc - cur.n > 10
    \/ (cur.n - calc \in {10, 0 - 10}) /\ CentApartExceeds[<<cur.n, calc>>]

\* the checks of one line on its parsed numbers: tq, tp, tt tell whether parsing
\* the quantity, the price, the line total raises
\* a quantity that fails only when it is below zero
NonPositiveBelowZero(qty) == qty # Null /\ qty.n < 0
\* validation.ts validateAndFix: qty !== null && qty <= 0
NonPositive(qty) == qty # Null /\ qty.n <= 0
LineParsed(recNo, lineNo, qtyField, priceField, lineTotalField, qty, unitPrice, currentTotal, tq, tp, tt) ==
    LET computes == qty # Null /\ unitPrice # Null /\ qty.n > 0 /\ unitPrice.n >= 0
        calculatedTotal == Round2(qty.n * unitPrice.n, Unit * Unit)
        rewrites == computes /\ Far(currentTotal, calculatedTotal)
    IN IF tq \/ tp \/ (computes /\ tt)
       THEN [throws |-> TRUE, issues |-> <<>>, field |-> lineTotalField, total |-> Null]
       ELSE [throws |-> FALSE,
             issues |->
                (IF NonPositive(qty)
                 THEN <<Issue("error", qtyField, recNo, lineNo, Str(String(qty)),
                              Str(T_MANUAL), FALSE, "high", "amount", 0)>>
                 ELSE <<>>)
                \o (IF unitPrice # Null /\ unitPrice.n < 0
                    THEN <<Issue("error", priceField, recNo, lineNo, Str(String(unitPrice)),
                                 Str(T_MANUAL), FALSE, "high", "amount", 0)>>
                    ELSE <<>>)
                \o (IF unitPrice # Null /\ unitPrice.n = 0
                    THEN <<Issue("warning", priceField, recNo, lineNo,
                                 Str(T_zero), Str(T_zero), FALSE, "medium", "amount", 0)>>
                    ELSE <<>>)
                \o (IF rewrites
                    THEN <<Issue("warning", lineTotalField, recNo, lineNo,
                                 Str(String(currentTotal)), Str(NumToStr(calculatedTotal)),
                                 TRUE, "high", "amount", 0)>>
                    ELSE <<>>),
             field |-> lineTotalField,
             total |-> IF rewrites THEN Num(calculatedTotal) ELSE Null]

LineRaw(recNo, lineNo, qtyField, priceField, lineTotalField, rawQty, rawPrice, rawTotal) ==
    LineParsed(recNo, lineNo, qtyField, priceField, lineTotalField,
               parseNumber(rawQty), parseNumber(rawPrice), parseNumber(rawTotal),
               parseNumberThrows(rawQty), parseNumberThrows(rawPrice),
               parseNumberThrows(rawTotal))

\* what the loop body does with one line: whether it raises, the issues it
\* emits, and the line total it writes (Null: none)
LineResult(line, recNo, lineNo) ==
    LET l == Wrapped(line)
        qtyField == IF Prop(l, "Quantity") # Undef THEN "Quantity" ELSE "quantity"
        priceField == IF Prop(l, "UnitPrice") # Undef THEN "UnitPrice" ELSE "unitPrice"
        lineTotalField == IF Prop(l, "LineTotal") # Undef THEN "LineTotal" ELSE "lineTotal"
    IN LineRaw(recNo, lineNo, qtyField, priceField, lineTotalField,
               extractPrimitive(Prop(l, qtyField)), extractPrimitive(Prop(l, priceField)),
               extractPrimitive(Prop(l, lineTotalField)))

\* fixedLine[lineTotalField] = calculatedTotal for line j.  fixedLine is element
\* j of fixedRecord[lineItemsField]; when that array was taken over from the
\* record (origPath # <<>>: where the record's own line objects lie in data),
\* fixedLine is the record's own line object and the write changes data as well.
WriteLineTotal(st, lineItemsField, origPath, j, field, total) ==
    LET at == <<[k |-> lineItemsField], [i |-> j], [k |-> field]>>
        own == origPath
               \o (IF isArray(GetPath(st.data, origPath)) THEN <<[i |-> j]>> ELSE <<>>)
               \o <<[k |-> field]>>
    IN IF origPath = <<>> THEN WithFixed(st, SetPath(st.fixedRecord, at, total))
       ELSE [WithFixed(st, SetPath(st.fixedRecord, at, total))
             EXCEPT !.data = SetPath(st.data, own, total)]

\* after the lines: on to the totals, unless a line raised
LinesDone(st) == IF st.pc = "thrown" THEN st ELSE Goto(st, "totals")

\* the loop over the lines from line j on; LineNext continues with the result r
\* of line j
RECURSIVE LinesFrom(_, _, _, _, _)
LineNext(st, lineItems, lineItemsField, origPath, j, r) ==
    IF r.throws THEN Thrown(st)
    ELSE LinesFrom(Push(IF r.total = Null THEN st
                        ELSE WriteLineTotal(st, lineItemsField, origPath, j, r.field, r.total),
                        r.issues),
                   lineItems, lineItemsField, origPath, j + 1)
LinesFrom(st, lineItems, lineItemsField, origPath, j) ==
    IF j > Len(lineItems) THEN st
    ELSE LineNext(st, lineItems, lineItemsField, origPath, j,
                  LineResult(lineItems[j], RecNo(st), j))

\* the line items of a record that has some: raw is record[lineItemsField],
\* lineItems what the wrapper normalisation makes of it, and taken tells that
\* fixedRecord[lineItemsField] = lineItems was executed (the record's own objects)
LineItemsOf(st, lineItemsField, raw, lineItems, taken) ==
    IF ~isArray(lineItems)
    THEN Goto(Push(st, <<Issue("error", lineItemsField, RecNo(st), 0, Str(typeof(raw)),
                               Str(T_REQUIRED), FALSE, "high", "schema", 0)>>),
              "totals")
    ELSE LinesDone(
           LinesFrom(
             Push(IF taken
                  THEN WithFixed(st, Obj(Put(st.fixedRecord.f, lineItemsField, lineItems)))
                  ELSE st,
                  IF lineItems.a = <<>>
                  THEN <<Issue("error", lineItemsField, RecNo(st), 0, Str(T_emptyArray),
                               Str(T_REQUIRED), FALSE, "high", "mandatory", 0)>>
                  ELSE <<>>),
             lineItems.a, lineItemsField,
             IF taken
             THEN RecordPath(st.data, st.index + 1)
                  \o <<[k |-> lineItemsField], [k |-> "LineItem"]>>
             ELSE <<>>,
             1))

\* step 7: the line items
LineItemsStep(st) ==
    LET record == Rec(st)
        lineItemsField == IF Truthy(Prop(record, "LineItems")) THEN "LineItems" ELSE "lineItems"
        raw == Prop(record, lineItemsField)
        wrapper == isObject(raw) /\ "LineItem" \in DOMAIN raw.f
        li == Prop(raw, "LineItem")
    IN IF ~Truthy(raw)
       THEN Goto(Push(st, <<Issue("error", "LineItems", RecNo(st), 0, Str(T_missing),
                                  Str(T_REQUIRED), FALSE, "high", "mandatory", 0)>>),
                 "totals")
       ELSE LineItemsOf(st, lineItemsField, raw,
                        IF wrapper THEN (IF isArray(li) THEN li ELSE Arr(<<li>>)) ELSE raw,
                        wrapper /\ Truthy(Prop(st.fixedRecord, lineItemsField)))

\* a negative amount
NegativeAmount(v, field, recNo) ==
    IF v # Null /\ v.n < 0
    THEN <<Issue("error", field, recNo, 0, Str(String(v)), Str(T_MANUAL),
                 FALSE, "high", "amount", 0)>>
    ELSE <<>>

\* fixedRecord[field] = calculated with its issue, when the stored amount is
\* missing or off by more than 0.01
RewriteAmount(st, recomputes, field, current, calculated) ==
    IF recomputes /\ Far(current, calculated)
    THEN Push(WithFixed(st, Obj(Put(st.fixedRecord.f, field, Num(calculated)))),
              <<Issue("warning", field, RecNo(st), 0, Str(String(current)),
                      Str(NumToStr(calculated)), TRUE, "high", "amount", 0)>>)
    ELSE st

\* the totals on their parsed numbers: rate is parseNumber(...) of the rate
\* read from fixedRecord, currentVAT and currentGrandTotal the stored amounts
\* as the recomputation parses them
TotalsParsed(st, taxableField, vatAmountField, grandTotalField, taxable, vatAmount, grandTotal, rate, currentVAT, currentGrandTotal) ==
    LET recomputes == taxable # Null /\ taxable.n >= 0
        \* parseNumber(...) / 100: null / 100 is 0
        r == IF rate = Null THEN 0 ELSE rate.n
        calculatedVAT == Round2(taxable.n * r, Unit * Unit * 100)
        calculatedGrandTotal == Round2(taxable.n + calculatedVAT, Unit)
    IN Goto(RewriteAmount(
              RewriteAmount(
                Push(st, NegativeAmount(taxable, taxableField, RecNo(st))
                         \o NegativeAmount(vatAmount, vatAmountField, RecNo(st))
                         \o NegativeAmount(grandTotal, grandTotalField, RecNo(st))
                         \o (IF taxable # Null /\ taxable.n = 0
                             THEN <<Issue("warning", taxableField, RecNo(st), 0,
                                          Str(T_zero), Str(T_zero), FALSE,
                                          "medium", "amount", 0)>>
                             ELSE <<>>)),
                recomputes, vatAmountField, currentVAT, calculatedVAT),
              recomputes, grandTotalField, currentGrandTotal, calculatedGrandTotal),
            "schema")

TotalsRaw(st, taxableField, vatAmountField, grandTotalField, rawTaxable, rawVat, rawGrand, rawRate, storedVat, storedGrand) ==
    IF \/ parseNumberThrows(rawTaxable)
       \/ parseNumberThrows(rawVat)
       \/ parseNumberThrows(rawGrand)
       \/ /\ parseNumber(rawTaxable) # Null
          /\ parseNumber(rawTaxable).n >= 0
          /\ \/ parseNumberThrows(rawRate)
             \/ parseNumberThrows(storedVat)
             \/ parseNumberThrows(storedGrand)
    THEN Thrown(st)
    ELSE TotalsParsed(st, taxableField, vatAmountField, grandTotalField,
                      parseNumber(rawTaxable), parseNumber(rawVat), parseNumber(rawGrand),
                      parseNumber(rawRate), parseNumber(storedVat), parseNumber(storedGrand))

\* step 8: the totals
TotalsStep(st) ==
    LET record == Rec(st)
        taxableField == IF Prop(record, "TaxableAmount") # Undef THEN "TaxableAmount"
                        ELSE "taxableAmount"
        vatAmountField == IF Prop(record, "VATAmount") # Undef THEN "VATAmount" ELSE "vatAmount"
        grandTotalField == IF Prop(record, "GrandTotal") # Undef THEN "GrandTotal"
                           ELSE "grandTotal"
    IN TotalsRaw(st, taxableField, vatAmountField, grandTotalField,
                 extractPrimitive(Prop(record, taxableField)),
                 extractPrimitive(Prop(record, vatAmountField)),
                 extractPrimitive(Prop(record, grandTotalField)),
                 OrElse(OrElse(Prop(st.fixedRecord, "VATRate"),
                               Prop(st.fixedRecord, "vatRate")), N(16)),
                 Prop(record, vatAmountField),
                 Prop(record, grandTotalField))

\* the fields of the structural check, each with field.toLowerCase() and
\* field.charAt(0).toLowerCase() + field.slice(1)
requiredFields ==
    << [name |-> "TPIN", lower |-> "tpin", camel |-> "tPIN"],
       [name |-> "InvoiceNumber", lower |-> "invoicenumber", camel |-> "invoiceNumber"],
       [name |-> "InvoiceDate", lower |-> "invoicedate", camel |-> "invoiceDate"] >>

\* record[field] !== undefined under one of the three spellings
hasField(record, fld) ==
    \/ Prop(record, fld.name) # Undef
    \/ Prop(record, fld.lower) # Undef
    \/ Prop(record, fld.camel) # Undef

\* step 9: the structural check, then on to the next record or to the return
SchemaStep(st) ==
    LET record == Rec(st)
        missingStructure == SelectSeq(requiredFields, LAMBDA fld : ~hasField(record, fld))
        st1 == IF missingStructure # <<>>
               THEN Push(st, <<Issue("error", "Schema Validation", RecNo(st), 0,
                                     Str(T_incomplete), Str(T_MANUAL), FALSE, "high",
                                     "schema", 0)>>)
               ELSE st
    IN IF st.index + 1 < Len(Records(st.data))
       THEN [st1 EXCEPT !.index = @ + 1,
                        !.fixedRecord = BindFixedRecord(st1, st.index + 2),
                        !.pc = "mandatory"]
       ELSE Goto(st1, "return")

\* issues.filter(i => i.severity === 'error').length === 0
isValidOfFirstRecord(issues) ==
    \A j \in 1..Len(issues) : issues[j].rec = 1 => issues[j].severity # "error"
isValid(issues) == \A j \in 1..Len(issues) : issues[j].severity # "error"

\* the ValidationResult of a call that reached its return statement
Result(st) ==
    [isValid |-> isValid(st.issues),
     issues |-> st.issues,
     originalData |-> st.data,
     fixedData |-> IF isArray(st.data) THEN Arr(st.fixedRecords) ELSE st.fixedRecords[1]]

----------------------------------------------------------------------------
(* fileProcessing.ts: the XML encoder and decoder.  An XML text is the      *)
(* sequence of its tokens: [tag |-> "decl"], [tag |-> "open", v |-> name],  *)
(* [tag |-> "close", v |-> name], [tag |-> "empty", v |-> name] (<name/>)   *)
(* and [tag |-> "text", v |-> characters].                                  *)

Tok(tag, v) == [tag |-> tag, v |-> v]
T_newline == <<"\n">>
T_indent == <<"\n", " ", " ">>

\* fileProcessing.ts jsonToXML.buildXML
RECURSIVE buildXML(_, _), buildMembers(_, _, _), buildItems(_, _, _)
buildXML(data, nodeName) ==
    IF data.t \in {"null", "undef"} THEN <<Tok("empty", nodeName)>>
    ELSE IF isArray(data) THEN buildItems(data.a, nodeName, 1)
    ELSE IF isObject(data)
    THEN <<Tok("open", nodeName)>>
         \o buildMembers(data.f, SelectSeq(Keys(data.f), LAMBDA k : k # "@attributes"), 1)
         \o <<Tok("text", T_newline), Tok("close", nodeName)>>
    ELSE <<Tok("open", nodeName)>>
         \o (IF String(data) = <<>> THEN <<>> ELSE <<Tok("text", String(data))>>)
         \o <<Tok("close", nodeName)>>
\* for (const key in data) xml += '\n  ' + buildXML(data[key], key)
buildMembers(f, keys, i) ==
    IF i > Len(keys) THEN <<>>
    ELSE <<Tok("text", T_indent)>> \o buildXML(f[keys[i]], keys[i]) \o buildMembers(f, keys, i + 1)
\* data.map(item => buildXML(item, nodeName)).join('\n')
buildItems(items, nodeName, i) ==
    IF i > Len(items) THEN <<>>
    ELSE (IF i > 1 THEN <<Tok("text", T_newline)>> ELSE <<>>)
         \o buildXML(items[i], nodeName) \o buildItems(items, nodeName, i + 1)

\* fileProcessing.ts jsonToXML, with the root name it is called with
jsonToXML(obj) == <<Tok("decl", ""), Tok("text", T_newline)>> \o buildXML(obj, "Invoice")

\* the keys of the decoded values that are no XML names
NoXmlNames == {"#text", "@attributes"}
\* the position of the close tag that matches the open tag at position i
RECURSIVE CloseOf(_, _, _)
CloseOf(ts, i, depth) ==
    LET d == IF ts[i].tag = "open" THEN depth + 1
             ELSE IF ts[i].tag = "close" THEN depth - 1 ELSE depth
    IN IF d = 0 THEN i ELSE CloseOf(ts, i + 1, d)
\* the nodes a balanced run of tokens makes: text nodes (adjacent texts are one
\* node) and elements with their child nodes
RECURSIVE Nodes(_)
Nodes(ts) ==
    IF ts = <<>> THEN <<>>
    ELSE IF ts[1].tag = "decl" THEN Nodes(Tail(ts))
    ELSE IF ts[1].tag = "text"
    THEN IF Len(ts) > 1 /\ ts[2].tag = "text"
         THEN Nodes(<<Tok("text", ts[1].v \o ts[2].v)>> \o SubSeq(ts, 3, Len(ts)))
         ELSE <<[tag |-> "text", v |-> ts[1].v]>> \o Nodes(Tail(ts))
    ELSE IF ts[1].tag = "empty"
    THEN <<[tag |-> "element", v |-> ts[1].v, kids |-> <<>>]>> \o Nodes(Tail(ts))
    ELSE LET c == CloseOf(ts, 1, 0)
         IN <<[tag |-> "element", v |-> ts[1].v, kids |-> Nodes(SubSeq(ts, 2, c - 1))]>>
            \o Nodes(SubSeq(ts, c + 1, Len(ts)))

\* DOMParser accepts the text: every tag is a name, no text holds markup, and
\* the document is one element (around it only white space)
IsWhite(text) == \A i \in 1..Len(text) : IsSpace(text[i])
WellFormed(ts) ==
    /\ \A i \in 1..Len(ts) :
          /\ ts[i].tag \in {"open", "close", "empty"} => ts[i].v \notin NoXmlNames
          /\ ts[i].tag = "text" => \A c \in 1..Len(ts[i].v) : ts[i].v[c] \notin {"<", "&"}
    /\ Len(SelectSeq(Nodes(ts), LAMBDA n : n.tag = "element")) = 1
    /\ \A i \in 1..Len(Nodes(ts)) : Nodes(ts)[i].tag = "text" => IsWhite(Nodes(ts)[i].v)

\* fileProcessing.ts parseXML.xmlToJson of a node; addChild is the loop body
\* that files a child under its node name, a repeated name as a sequence
addChild(f, nodeName, child) ==
    IF nodeName \notin DOMAIN f THEN Put(f, nodeName, child)
    ELSE IF isArray(f[nodeName]) THEN Put(f, nodeName, Arr(Append(f[nodeName].a, child)))
    ELSE Put(f, nodeName, Arr(<<f[nodeName], child>>))
RECURSIVE xmlToJson(_), xmlChildren(_, _, _)
xmlToJson(xml) ==
    IF xml.tag = "text" THEN Str(xml.v)
    ELSE Obj(xmlChildren(EmptyMap, xml.kids, 1))
xmlChildren(f, kids, i) ==
    IF i > Len(kids) THEN f
    ELSE xmlChildren(addChild(f, IF kids[i].tag = "text" THEN "#text" ELSE kids[i].v,
                              xmlToJson(kids[i])),
                     kids, i + 1)

\* what a text DOMParser refuses decodes to: a document that reports the error
ParserError == Obj1("parsererror", Obj1("#text", Str(<<"e", "r", "r", "o", "r">>)))
\* fileProcessing.ts parseXML
parseXML(ts) ==
    IF WellFormed(ts)
    THEN xmlToJson([tag |-> "element", v |-> "#document",
                    kids |-> SelectSeq(Nodes(ts), LAMBDA n : n.tag = "element")])
    ELSE ParserError

----------------------------------------------------------------------------
(* The decoded values the calls are made with *)

\* a mapping from its members <<key, value>>, a member that is undefined left out
Mk(pairs) ==
    LET at(k) == CHOOSE i \in 1..Len(pairs) : pairs[i][1] = k
        keys == {pairs[i][1] : i \in {j \in 1..Len(pairs) : pairs[j][2] # Undef}}
    IN Obj([k \in keys |-> pairs[at(k)][2]])

\* fileProcessing.ts parseXML: <X>s</X> decodes to X: {'#text': s}
TextNode(s) == Obj1("#text", Str(s))
\* JSON.parse of an object with a member named toString
Hostile == Mk(<< <<"toString", N(1)>>, <<"value", N(2)>> >>)

T_A == <<"A">>
T_B == <<"B">>
T_7 == <<"7">>
T_tpin10 == <<"1","2","3","4","5","6","7","8","9","0">>
T_tpin9 == <<"1","2","3","4","5","6","7","8","9">>
T_tpinOther == <<"9","8","7","6","5","4","3","2","1">>
T_date == <<"2","0","2","5","-","0","2","-","0","1">>
T_dateSlash == <<"0","1","/","0","2","/","2","0","2","5">>
T_dateDots == <<"1",".","2",".","2","0","2","5">>
T_date30Feb == <<"2","0","2","5","-","0","2","-","3","0">>
T_dateFuture == <<"2","0","3","0","-","0","1","-","0","1">>
T_timestamp == <<"1","6","8","2","8","9","9","2","0","0">>
T_junk == <<"j","u","n","k">>
T_usd == <<"u","s","d">>
T_eur == <<"e","u","r">>
T_zkSpaced == <<" ","z","k"," ">>
T_20 == <<"2","0">>
T_3p2 == <<"3",".","2">>
T_23p2 == <<"2","3",".","2">>

\* a line item
Line(qty, price, total) ==
    Mk(<< <<"Quantity", qty>>, <<"UnitPrice", price>>, total >>)
ValidLines == Arr(<<Line(N(2), N(10), <<"LineTotal", N(20)>>)>>)

\* an invoice record from its members <<key, value>>
Invoice(inv, cur, tpin, date, rate, lines, taxable, vat, grand) ==
    Mk(<<inv, cur, tpin, date, rate, lines, taxable, vat, grand>>)
\* the members of an invoice no rule objects to
vInv == <<"InvoiceNumber", Str(T_A)>>
vCur == <<"Currency", Str(T_ZMW)>>
vTpin == <<"TPIN", Str(T_tpin10)>>
vDate == <<"InvoiceDate", Str(T_date)>>
vRate == <<"VATRate", N(16)>>
vLines == <<"LineItems", ValidLines>>
vTaxable == <<"TaxableAmount", N(20)>>
vVat == <<"VATAmount", Num(3200)>>
vGrand == <<"GrandTotal", Num(23200)>>
ValidInvoice == Invoice(vInv, vCur, vTpin, vDate, vRate, vLines, vTaxable, vVat, vGrand)

\* the longest batch
MaxRecords == 3

\* batches of short records that differ in their invoice number
InvoiceNumberChoices ==
    { Mk(<<vCur, inv>>) :
        inv \in { <<"InvoiceNumber", Undef>>,
                  <<"InvoiceNumber", Str(T_A)>>,
                  <<"InvoiceNumber", Str(<<" ", "A", " ">>)>>,
                  <<"invoiceNumber", Str(T_B)>>,
                  <<"InvoiceNo", N(7)>>,
                  <<"InvoiceNumber", TextNode(T_7)>> } }
    \cup { Mk(<<vCur, <<"InvoiceNumber", N(0)>>, <<"InvoiceNo", Str(T_B)>> >>) }
BatchInputs ==
    { Arr(b) : b \in UNION { [1..n -> InvoiceNumberChoices] : n \in 0..MaxRecords } }

\* one invoice with its currency under every alias
CurrencyInputs ==
    { Mk(<<vInv, vTpin, vDate, vRate, vLines, vTaxable, vVat, vGrand,
           <<"Currency", c1>>, <<"currency", c2>>, <<"CurrencyCode", c3>> >>) :
        c1 \in {Undef, Str(<<>>), Str(T_usd), Str(T_ZMW), Str(T_zkSpaced), N(5), Null,
                TextNode(T_usd)},
        c2 \in {Undef, Str(T_usd), Str(T_ZMW)},
        c3 \in {Undef, Str(T_eur)} }

\* one invoice with its taxpayer ID under every alias
TpinInputs ==
    { Mk(<<vInv, vCur, vDate, vRate, vLines, vTaxable, vVat, vGrand,
           <<"TPIN", t1>>, <<"tpin", t2>>, <<"TaxpayerTIN", t3>> >>) :
        t1 \in {Undef, Str(<<>>), Str(T_tpin9), Str(T_tpin10), Str(T_junk), N(123456),
                TextNode(T_tpin9), TextNode(T_tpin10), Null},
        t2 \in {Undef, Str(T_tpinOther)},
        t3 \in {Undef, Str(T_tpin10)} }

\* one invoice with its dates
DateInputs ==
    { Mk(<<vInv, vCur, vTpin, vRate, vLines, vTaxable, vVat, vGrand,
           <<"InvoiceDate", d1>>, <<"Date", d2>> >>) :
        d1 \in {Undef, Str(T_date), Str(T_dateSlash), Str(T_date30Feb), Str(T_dateFuture),
                Str(T_timestamp), Str(T_junk), TextNode(T_date), N(5)},
        d2 \in {Undef, Str(T_dateDots)} }

\* one invoice with its VAT rate and its totals in every representation
TotalsInputs ==
    { Invoice(vInv, vCur, vTpin, vDate, rate, vLines, taxable, vat, grand) :
        rate \in { <<"VATRate", Undef>>, <<"VATRate", N(0)>>, <<"VATRate", N(16)>>,
                   <<"VATRate", Str(T_16)>>, <<"VATRate", Str(<<"0">>)>>,
                   <<"VATRate", N(5)>>, <<"VATRate", N(120)>>, <<"VATRate", N(0 - 1)>>,
                   <<"VATRate", Str(T_junk)>>, <<"VATRate", TextNode(T_16)>>,
                   <<"VATRate", TextNode(<<"0">>)>>, <<"vatRate", N(5)>> },
        taxable \in { <<"TaxableAmount", Undef>>, <<"TaxableAmount", N(20)>>,
                      <<"TaxableAmount", Str(T_20)>>, <<"TaxableAmount", N(0)>>,
                      <<"TaxableAmount", N(0 - 5)>>, <<"TaxableAmount", TextNode(T_20)>>,
                      <<"taxableAmount", Num(12340)>> },
        vat \in { <<"VATAmount", Undef>>, <<"VATAmount", Num(3200)>>,
                  <<"VATAmount", Str(T_3p2)>>, <<"VATAmount", Num(3205)>>,
                  <<"VATAmount", Num(3220)>>, <<"VATAmount", TextNode(T_3p2)>>,
                  <<"VATAmount", N(0)>>, <<"VATAmount", TextNode(T_zero)>>,
                  <<"vatAmount", N(0 - 1)>> },
        grand \in { <<"GrandTotal", Undef>>, <<"GrandTotal", Num(23200)>>,
                    <<"GrandTotal", Str(T_23p2)>>, <<"GrandTotal", N(20)>>,
                    <<"GrandTotal", N(0 - 5)>>,
                    <<"GrandTotal", TextNode(T_23p2)>> } }

\* line items, and invoices that carry them as an array or under a wrapper
LineChoices ==
    { Line(N(2), N(10), <<"LineTotal", N(20)>>),
      Line(N(2), N(10), <<"LineTotal", N(5)>>),
      Line(N(2), N(10), <<"LineTotal", Num(20010)>>),
      Line(N(2), N(10), <<"LineTotal", Undef>>),
      Line(Str(<<"2">>), N(10), <<"lineTotal", Str(<<"5">>)>>),
      Line(N(0), N(10), <<"LineTotal", N(0)>>),
      Line(N(2), N(0 - 10), <<"LineTotal", N(5)>>),
      Line(TextNode(<<"2">>), N(0), <<"LineTotal", TextNode(T_7)>>),
      Null, N(5) }
LineSeqs == UNION { [1..n -> LineChoices] : n \in 1..2 }
LineItemsChoices ==
    UNION { { <<"LineItems", Arr(ls)>>, <<"lineItems", Arr(ls)>>,
              <<"LineItems", Obj1("LineItem", Arr(ls))>>,
              <<"LineItems", Obj1("LineItem", ls[1])>> } : ls \in LineSeqs }
    \cup { <<"LineItems", v>> :
             v \in {Undef, Arr(<<>>), Str(T_junk), N(0), EmptyObj, Null, Bool(TRUE),
                    Obj1("LineItem", Arr(<<>>))} }
LineInputs ==
    { Invoice(vInv, vCur, vTpin, vDate, vRate, lines, vTaxable, vVat, vGrand) :
        lines \in LineItemsChoices }

\* an invoice that nearly every rule has something to say about
Untidy ==
    Mk(<< vInv, <<"Currency", Str(T_usd)>>, <<"TPIN", Str(T_tpin9)>>,
          <<"InvoiceDate", Str(T_dateSlash)>>, <<"VATRate", N(5)>>,
          <<"LineItems", Arr(<<Line(N(2), N(10), <<"LineTotal", N(5)>>),
                               Line(N(2), N(0), <<"LineTotal", N(5)>>)>>)>>,
          <<"VATAmount", Num(3220)>>, <<"GrandTotal", N(20)>> >>)

\* every shape a decoder gives: null, scalars, mappings, sequences, wrappers,
\* and mappings with a member named toString
ShapeInputs ==
    { Null, N(5), Str(T_junk), Bool(TRUE), EmptyObj, Arr(<<>>), ValidInvoice,
      Arr(<<Null, N(1), Str(T_junk), Arr(<<>>), ValidInvoice>>),
      Obj1("LineItems", Arr(<<Line(N(1), N(0 - 10), <<"LineTotal", N(0 - 10)>>)>>)),
      Obj1("Invoice", ValidInvoice),
      Obj1("Invoice", Obj1("Body", ValidInvoice)),
      Arr(<<Obj1("Invoice", ValidInvoice), ValidInvoice>>),
      Arr(<<Untidy, Untidy>>),
      Invoice(<<"InvoiceNumber", Hostile>>, vCur, vTpin, vDate, vRate, vLines, vTaxable,
              vVat, vGrand),
      Invoice(vInv, <<"Currency", Hostile>>, vTpin, vDate, vRate, vLines, vTaxable,
              vVat, vGrand),
      Invoice(vInv, vCur, <<"TPIN", Hostile>>, <<"InvoiceDate", Hostile>>, vRate, vLines,
              vTaxable, vVat, vGrand),
      Invoice(vInv, vCur, vTpin, vDate, <<"VATRate", Hostile>>, vLines, vTaxable,
              vVat, vGrand),
      Invoice(vInv, vCur, vTpin, vDate, vRate,
              <<"LineItems", Arr(<<Line(Hostile, N(10), <<"LineTotal", N(20)>>)>>)>>,
              vTaxable, vVat, vGrand),
      Invoice(vInv, vCur, vTpin, vDate, vRate, vLines, <<"TaxableAmount", Hostile>>,
              vVat, vGrand),
      Invoice(vInv, vCur, vTpin, vDate, vRate, vLines, vTaxable,
              <<"VATAmount", Mk(<< <<"toString", N(1)>>, <<"#text", Str(T_3p2)>> >>)>>,
              vGrand) }

Inputs ==
    BatchInputs \cup CurrencyInputs \cup TpinInputs \cup DateInputs \cup TotalsInputs
    \cup LineInputs \cup ShapeInputs

----------------------------------------------------------------------------
(* One call of validateAndFix, step by step *)

VARIABLES
    input,          \* the decoded value as it was when the call was made
    data,           \* the same tree as the call leaves it (originalData)
    fixedRecords, fixedRecord, issues, seen, index, pc,
    result,         \* the ValidationResult returned (Null before the return)
    steps,          \* the rule steps run so far: <<record number, step>>
    \* the upload handler and the files it processes
    files, reads, outcome, handler, processedFiles, isProcessing, toast,
    lastSeen,       \* the dedup table the last finished call left behind
    download,       \* the corrected data as the download holds it, read back
    again           \* the result of validating the corrected data once more

callVars == <<input, data, fixedRecords, fixedRecord, issues, seen, index, pc, result, steps>>
fileVars == <<files, reads, outcome, handler, processedFiles, isProcessing, toast, lastSeen, download, again>>
vars == <<callVars, fileVars>>

St == [data |-> data, fixedRecords |-> fixedRecords, fixedRecord |-> fixedRecord,
       issues |-> issues, seen |-> seen, index |-> index, pc |-> pc]

Apply(n) ==
    /\ data' = n.data
    /\ fixedRecords' = n.fixedRecords
    /\ fixedRecord' = n.fixedRecord
    /\ issues' = n.issues
    /\ seen' = n.seen
    /\ index' = n.index
    /\ pc' = n.pc

\* a rule step of the loop body
Step(at, n) ==
    /\ pc = at
    /\ Apply(n)
    /\ steps' = Append(steps, <<index + 1, at>>)
    /\ UNCHANGED <<input, result, fileVars>>

CallValidateAndFix ==
    /\ pc = "start"
    /\ Apply(Begin(data, lastSeen))
    /\ UNCHANGED <<input, result, steps, fileVars>>

CheckMandatory == Step("mandatory", MandatoryStep(St))
CheckInvoiceNumber == Step("invoiceNumber", InvoiceNumberStep(St))
CheckCurrency == Step("currency", CurrencyStep(St))
CheckTpin == Step("tpin", TpinStep(St))
CheckDates == \E lenient \in BOOLEAN : Step("dates", DatesStep(St, lenient))
CheckVatRate == Step("vatRate", VatRateStep(St))
CheckLineItems == Step("lineItems", LineItemsStep(St))
CheckTotals == Step("totals", TotalsStep(St))
CheckSchema == Step("schema", SchemaStep(St))

ReturnResult ==
    /\ pc = "return"
    /\ result' = Result(St)
    /\ pc' = "done"
    /\ UNCHANGED <<input, data, fixedRecords, fixedRecord, issues, seen, index, steps, fileVars>>

\* the whole call at once, as its caller sees it: the state at the return
\* statement, or at the statement that raised
RECURSIVE Run(_, _)
Run(st, lenient) ==
    CASE st.pc = "mandatory" -> Run(MandatoryStep(st), lenient)
      [] st.pc = "invoiceNumber" -> Run(InvoiceNumberStep(st), lenient)
      [] st.pc = "currency" -> Run(CurrencyStep(st), lenient)
      [] st.pc = "tpin" -> Run(TpinStep(st), lenient)
      [] st.pc = "dates" -> Run(DatesStep(st, lenient), lenient)
      [] st.pc = "vatRate" -> Run(VatRateStep(st), lenient)
      [] st.pc = "lineItems" -> Run(LineItemsStep(st), lenient)
      [] st.pc = "totals" -> Run(TotalsStep(st), lenient)
      [] st.pc = "schema" -> Run(SchemaStep(st), lenient)
      [] OTHER -> st

----------------------------------------------------------------------------
(* The file pipeline and the upload handler *)

\* the most files one upload holds
MaxFiles == 2

\* fileProcessing.ts processFile: the kind its name's ending selects
fileType(file) == IF file.ext \in {"xml", "csv", "json"} THEN file.ext ELSE "none"

\* fileProcessing.ts processFile, the CSV branch: rows that look like line items
\* become the LineItems of one invoice
hasLineItemKeys(sample) ==
    \E k \in {"Quantity", "quantity", "UnitPrice", "unitPrice", "LineTotal", "lineTotal"} :
        k \in DOMAIN toRecord(sample)
csvData(rows) ==
    IF isArray(rows) /\ rows.a # <<>> /\ hasLineItemKeys(rows.a[1])
    THEN Obj1("LineItems", rows)
    ELSE rows

\* what the text of a file decodes to.  content.ok tells whether the decoder of
\* the file's kind accepts the text (JSON.parse, after the repair pass as well)
\* and content.value is the value it then gives.
Decode(file) ==
    IF ~file.content.ok THEN [ok |-> FALSE, data |-> Null]
    ELSE [ok |-> TRUE,
          data |-> IF fileType(file) = "csv" THEN csvData(file.content.value)
                   ELSE file.content.value]

File(name, ext, ok, value) ==
    [name |-> name, ext |-> ext, content |-> [ok |-> ok, value |-> value]]

ShortInvoice(inv) == Mk(<<vCur, <<"InvoiceNumber", inv>> >>)
FileChoices ==
    { File("a", "json", TRUE, Arr(<<ShortInvoice(Str(T_A)), ShortInvoice(Str(T_B))>>)),
      File("b", "json", TRUE, Arr(<<ShortInvoice(Str(T_A))>>)),
      File("c", "json", TRUE, Arr(<<ShortInvoice(Str(T_B)), ShortInvoice(Str(T_B))>>)),
      File("d", "json", FALSE, Null),
      File("e", "txt", TRUE, ValidInvoice),
      File("a", "xml", TRUE, Obj1("Invoice", ShortInvoice(TextNode(T_A)))),
      File("g", "csv", TRUE, Arr(<<Line(N(2), N(10), <<"LineTotal", N(5)>>)>>)),
      File("h", "csv", TRUE, Arr(<<ShortInvoice(Str(T_A))>>)),
      File("i", "json", TRUE, ShortInvoice(Hostile)) }
Uploads == UNION { [1..n -> FileChoices] : n \in 1..MaxFiles }

\* Index.handleFilesSelected up to its await: the busy flag is set and
\* processFile is called on every file.  A call runs up to its first await:
\* a file of no supported kind is rejected there, any other waits for its text.
HandleFilesSelected ==
    /\ handler = "idle"
    /\ isProcessing' = TRUE
    /\ reads' = [i \in 1..Len(files) |->
                    IF fileType(files[i]) = "none" THEN "rejected" ELSE "reading"]
    /\ handler' = "awaiting"
    /\ UNCHANGED <<callVars, files, outcome, processedFiles, toast, lastSeen, download, again>>

\* processFile after its await: the text of file i has arrived; it is decoded
\* and validated in one turn
ProcessFile(i, lenient) ==
    LET d == Decode(files[i])
        st == Run(Begin(d.data, lastSeen), lenient)
    IN /\ reads[i] = "reading"
       /\ IF ~d.ok
          THEN /\ reads' = [reads EXCEPT ![i] = "rejected"]
               /\ UNCHANGED <<outcome, lastSeen>>
          ELSE IF st.pc = "thrown"
          THEN /\ reads' = [reads EXCEPT ![i] = "rejected"]
               /\ lastSeen' = st.seen
               /\ UNCHANGED outcome
          ELSE /\ reads' = [reads EXCEPT ![i] = "fulfilled"]
               /\ outcome' = [outcome EXCEPT ![i] =
                                 [name |-> files[i].name, type |-> fileType(files[i]),
                                  result |-> Result(st)]]
               /\ lastSeen' = st.seen
       /\ UNCHANGED <<callVars, files, handler, processedFiles, isProcessing, toast, download, again>>
TextArrives == \E i \in 1..Len(files), lenient \in BOOLEAN : ProcessFile(i, lenient)

\* Promise.all fulfilled: the results are stored, in the order of the files
AllProcessed ==
    /\ handler = "awaiting"
    /\ \A i \in 1..Len(files) : reads[i] = "fulfilled"
    /\ processedFiles' = outcome
    /\ toast' = "success"
    /\ isProcessing' = FALSE
    /\ handler' = "done"
    /\ UNCHANGED <<callVars, files, reads, outcome, lastSeen, download, again>>

\* Promise.all rejected by the first rejection: the catch block shows the error,
\* nothing is stored
ProcessingFailed ==
    /\ handler = "awaiting"
    /\ \E i \in 1..Len(files) : reads[i] = "rejected"
    /\ toast' = "error"
    /\ isProcessing' = FALSE
    /\ handler' = "failed"
    /\ UNCHANGED <<callVars, files, reads, outcome, processedFiles, lastSeen, download, again>>

----------------------------------------------------------------------------
(* The download: generateDownloadZip writes the corrected data of a result  *)
(* in one of the three kinds.  `download` holds the kind and the value the  *)
(* decoder of that kind reads back from what was written.                   *)

\* the CSV text Papa.unparse writes, as its header fields and its rows of cell
\* texts (quoting keeps every cell's text apart, so the cells are the text)
\* a cell: '' for null and undefined, toString() otherwise
safe(v) == IF v.t \in {"null", "undef"} THEN <<>> ELSE String(v)
\* the header is the keys of the first row
unparseFields(rows) == IF rows # <<>> /\ isObject(rows[1]) THEN Keys(rows[1].f) ELSE <<>>
\* Papa.unparse raises: a first row that is no mapping and no sequence, a later
\* row with no keys to enumerate, or a cell whose toString raises
unparseRaises(rows) ==
    /\ rows # <<>>
    /\ ~isArray(rows[1])
    /\ \/ ~isObject(rows[1])
       \/ \E i \in 1..Len(rows) : rows[i].t \in {"null", "undef"}
       \/ \E i \in 1..Len(rows) : \E c \in 1..Len(unparseFields(rows)) :
             StringThrows(Prop(rows[i], unparseFields(rows)[c]))
PapaUnparse(rows) ==
    [fields |-> unparseFields(rows),
     rows |-> IF unparseFields(rows) = <<>> THEN <<>>
              ELSE [i \in 1..Len(rows) |->
                      [c \in 1..Len(unparseFields(rows)) |->
                          safe(Prop(rows[i], unparseFields(rows)[c]))]]]

\* the most whole digits of a number the model's amounts hold
MaxWhole == 6
\* /^\s*-?(\d+\.?|\.\d+|\d+\.\d+)\s*$/ (the model has no exponent texts)
IsFloatText(s) ==
    LET t == trim(s)
        r == IF t # <<>> /\ Head(t) = "-" THEN Tail(t) ELSE t
        whole == DigitPrefix(r)
        rest == SubSeq(r, Len(whole) + 1, Len(r))
    IN /\ r # <<>>
       /\ \/ rest = <<>>
          \/ rest = <<".">>
          \/ Head(rest) = "." /\ Len(rest) > 1 /\ AllDigits(Tail(rest))
\* Papa.parse with dynamicTyping, one cell: booleans and numbers are typed, an
\* empty cell is null.  A whole number of more digits than MaxWhole is kept as
\* the text Number.prototype.toString gives for it.
parseDynamic(cell) ==
    IF cell = <<>> THEN Null
    ELSE IF cell \in {T_true, toUpperCase(T_true)} THEN Bool(TRUE)
    ELSE IF cell \in {T_false, toUpperCase(T_false)} THEN Bool(FALSE)
    ELSE IF ~IsFloatText(cell) THEN Str(cell)
    ELSE IF AllDigits(cell) /\ Len(StripZeros(cell)) > MaxWhole THEN Str(StripZeros(cell))
    ELSE parseFloat(trim(cell))
\* Papa.parse with header: true: one mapping per row, keyed by the header
PapaParse(table) ==
    Arr([i \in 1..Len(table.rows) |->
           Obj([k \in {table.fields[c] : c \in 1..Len(table.fields)} |->
                  parseDynamic(table.rows[i][CHOOSE c \in 1..Len(table.fields) :
                                                table.fields[c] = k])])])

T_one == <<"1">>
T_ten == <<"1", "0">>
FileTypes == {"xml", "csv", "json"}
dataArray(fixedData) == IF isArray(fixedData) THEN fixedData.a ELSE <<fixedData>>
\* fileProcessing.ts generateDownloadZip: the encoding of one kind, and
\* processFile's decoding of what was written
Reread(fixedData, kind) ==
    CASE kind = "xml" -> parseXML(jsonToXML(fixedData))
      [] kind = "csv" -> csvData(PapaParse(PapaUnparse(dataArray(fixedData))))
      [] OTHER -> DeepClone(fixedData)
GenerateDownloadZip ==
    \E kind \in FileTypes :
        /\ pc = "done"
        /\ ~(kind = "csv" /\ unparseRaises(dataArray(result.fixedData)))
        /\ download' = [kind |-> kind, data |-> Reread(result.fixedData, kind)]
        /\ pc' = "downloaded"
        /\ UNCHANGED <<input, data, fixedRecords, fixedRecord, issues, seen, index, result,
                       steps, files, reads, outcome, handler, processedFiles, isProcessing,
                       toast, lastSeen, again>>

\* the corrected data of a finished call are validated once more (a file that
\* was downloaded is uploaded again, in whatever browser): a fresh call of
\* validateAndFix, whole
ValidateAgain ==
    \E lenient \in BOOLEAN :
        /\ pc = "done"
        /\ IF Run(Begin(result.fixedData, lastSeen), lenient).pc = "thrown"
           THEN pc' = "thrown" /\ UNCHANGED again
           ELSE /\ again' = Result(Run(Begin(result.fixedData, lastSeen), lenient))
                /\ pc' = "again"
        /\ UNCHANGED <<input, data, fixedRecords, fixedRecord, issues, seen, index, result,
                       steps, files, reads, outcome, handler, processedFiles, isProcessing,
                       toast, lastSeen, download>>

\* fileProcessing.ts generateDownloadZip over the processed files.  The name of
\* a processed file is kept as its base name, its kind is its ending; the name
\* of an archive entry is <<base name with its suffix, ending>>.
OutputFormats == {"original"} \cup FileTypes
extension(file, outputFormat) == IF outputFormat = "original" THEN file.type ELSE outputFormat
correctedName(file, outputFormat) == <<file.name, "_corrected", extension(file, outputFormat)>>
\* the text written for a file (JSON.stringify's indentation is left out)
content(file, outputFormat) ==
    CASE extension(file, outputFormat) = "xml" -> jsonToXML(file.result.fixedData)
      [] extension(file, outputFormat) = "csv" -> PapaUnparse(dataArray(file.result.fixedData))
      [] OTHER -> JSONstringify(file.result.fixedData)
\* JSZip file(name, data): an entry of that name is replaced
zipFile(zip, name, text) ==
    [n \in DOMAIN zip \cup {name} |-> IF n = name THEN text ELSE zip[n]]
\* processedFiles.forEach(...) from file i on
RECURSIVE addCorrected(_, _, _, _)
addCorrected(zip, processed, outputFormat, i) ==
    IF i > Len(processed) THEN zip
    ELSE addCorrected(zipFile(zip, correctedName(processed[i], outputFormat),
                              content(processed[i], outputFormat)),
                      processed, outputFormat, i + 1)
ReportName == <<"ZRA_Validation_Report", "", "txt">>
\* generateIssueReport: the report is written from the name, the kind and the
\* issues of every file
generateIssueReport(processed) ==
    [i \in 1..Len(processed) |->
        [name |-> processed[i].name, type |-> processed[i].type,
         issues |-> processed[i].result.issues]]
EmptyZip == [n \in {} |-> <<>>]
generateDownloadZip(processed, outputFormat) ==
    zipFile(addCorrected(EmptyZip, processed, outputFormat, 1), ReportName,
            generateIssueReport(processed))
\* Papa.unparse raises on the data of some file
downloadRaises(processed, outputFormat) ==
    \E i \in 1..Len(processed) :
        /\ extension(processed[i], outputFormat) = "csv"
        /\ unparseRaises(dataArray(processed[i].result.fixedData))

\* Index.handleDownload: the archive of the processed files in one format
HandleDownload ==
    \E format \in OutputFormats :
        /\ handler = "done"
        /\ IF downloadRaises(processedFiles, format)
           THEN /\ download' = [format |-> format, raised |-> TRUE, archive |-> EmptyZip]
                /\ toast' = "error"
           ELSE /\ download' = [format |-> format, raised |-> FALSE,
                               archive |-> generateDownloadZip(processedFiles, format)]
                /\ toast' = "success"
        /\ handler' = "downloaded"
        /\ UNCHANGED <<callVars, files, reads, outcome, processedFiles, isProcessing,
                       lastSeen, again>>

\* CSV files of line items as Papa.parse reads their text: the rows of
\* csvEdge.test.ts and a row with no quantity and a unit price of zero
CsvHeader == <<"Quantity", "UnitPrice", "LineTotal">>
CsvTables ==
    { [fields |-> CsvHeader, rows |-> <<<<T_one, T_ten, T_ten>>, <<<<>>, <<"5">>, <<"5">>>>>>],
      [fields |-> CsvHeader, rows |-> <<<<T_one, <<"-">> \o T_ten, <<"-">> \o T_ten>>>>],
      [fields |-> CsvHeader, rows |-> <<<<<<>>, <<"0">>, <<"0">>>>, <<T_one, T_ten, T_ten>>>>] }
\* fileProcessing.ts processFile, the CSV branch
CsvInputs == {csvData(PapaParse(table)) : table \in CsvTables}

----------------------------------------------------------------------------
(* Specifications *)

NoCall ==
    /\ input = Null /\ data = Null /\ fixedRecords = <<>> /\ fixedRecord = EmptyObj
    /\ issues = <<>> /\ seen = EmptyMap /\ index = 0 /\ result = Null /\ steps = <<>>
NoUpload ==
    /\ reads = [i \in 1..Len(files) |-> "idle"]
    /\ outcome = [i \in 1..Len(files) |-> Null]
    /\ handler = "idle" /\ processedFiles = <<>> /\ isProcessing = FALSE
    /\ toast = "none" /\ lastSeen = EmptyMap /\ download = Null /\ again = Null

\* one call of validateAndFix on any of the inputs
Init ==
    /\ input \in Inputs \cup CsvInputs
    /\ data = input
    /\ fixedRecords = <<>> /\ fixedRecord = EmptyObj /\ issues = <<>> /\ seen = EmptyMap
    /\ index = 0 /\ pc = "start" /\ result = Null /\ steps = <<>>
    /\ files = <<>>
    /\ NoUpload

Next ==
    \/ CallValidateAndFix
    \/ CheckMandatory
    \/ CheckInvoiceNumber
    \/ CheckCurrency
    \/ CheckTpin
    \/ CheckDates
    \/ CheckVatRate
    \/ CheckLineItems
    \/ CheckTotals
    \/ CheckSchema
    \/ ReturnResult
    \/ GenerateDownloadZip
    \/ ValidateAgain

Spec == Init /\ [][Next]_vars

\* one upload of any of the file lists
InitFiles ==
    /\ files \in Uploads
    /\ NoUpload
    /\ NoCall
    /\ pc = "idle"

NextFiles ==
    \/ HandleFilesSelected
    \/ TextArrives
    \/ AllProcessed
    \/ ProcessingFailed
    \/ HandleDownload

SpecFiles == InitFiles /\ [][NextFiles]_vars

----------------------------------------------------------------------------
(* Properties *)

\* the number of records of the call
NRecords == Len(Records(input))
\* record j as the rules read it, as it was when the call was made
Orig(j) == RecordAt(input, j)
\* record j of the returned fixedData, at the place the rules' record has in it
Returned(j) ==
    LET list == IF isArray(input) THEN result.fixedData.a ELSE <<result.fixedData>>
        f0 == Wrapped(list[j])
        inner == SoleObjectKey(Wrapped(Records(input)[j]))
    IN IF inner # <<>> /\ isObject(GetPath(f0, inner)) THEN GetPath(f0, inner) ELSE f0
\* the positions in the returned log of the issues of record j
IssuesOf(j) == {k \in 1..Len(result.issues) : result.issues[k].rec = j}
Least(S) == CHOOSE i \in S : \A i2 \in S : i <= i2

\* C1: the returned isValid is true if and only if the returned issue log, over
\* all records of the batch, holds no issue of severity error.
C1_IsValidIffNoError ==
    pc = "done" =>
        /\ result.issues = issues
        /\ result.isValid <=>
              (\A k \in 1..Len(result.issues) : result.issues[k].severity # "error")
\* a batch whose first record is clean and whose second one has an error
C1_Witness ==
    /\ pc = "done"
    /\ NRecords = 2
    /\ ~result.isValid
    /\ \A k \in IssuesOf(1) : result.issues[k].severity # "error"
    /\ \E k \in IssuesOf(2) : result.issues[k].severity = "error"

\* C2: the call never changes the decoded data it was given: at every step and
\* at the return, originalData equals what the caller passed in.
C2_OriginalUntouched ==
    /\ data = input
    /\ pc = "done" => result.originalData = input

\* C3: the call is total: whatever decoded value it is given, it never raises.
C3_NeverRaises == pc # "thrown"

\* the first key of aliases whose value in record satisfies Held, "" when none
FirstKey(record, aliases, Held(_)) ==
    LET hits == SelectSeq(aliases, LAMBDA k : Held(Prop(record, k)))
    IN IF hits = <<>> THEN "" ELSE hits[1]
HoldsValue(v) == Truthy(extractPrimitive(v))
IsDefined(v) == v # Undef
\* the keys other than `read` are as they were, for a field read under `read`
OnlyWritten(j, aliases, read) ==
    read # "" =>
        \A i \in 1..Len(aliases) :
            Prop(Returned(j), aliases[i]) # Prop(Orig(j), aliases[i]) => aliases[i] = read
\* the same for the line totals of the lines record j carries as an array
LineTotalAliases == <<"LineTotal", "lineTotal">>
LinesOnlyWritten(j) ==
    \A field \in {"LineItems", "lineItems"} :
        LET before == Prop(Orig(j), field)
            after == Prop(Returned(j), field)
        IN (isArray(before) /\ isArray(after) /\ Len(before.a) = Len(after.a)) =>
              \A l \in 1..Len(before.a) :
                  LET read == FirstKey(before.a[l], LineTotalAliases, IsDefined)
                  IN read # "" =>
                        \A i \in 1..2 :
                            Prop(after.a[l], LineTotalAliases[i])
                                # Prop(before.a[l], LineTotalAliases[i])
                            => LineTotalAliases[i] = read

\* C4: a correction of a field the record has is written under the key the
\* value was read from, and every other alias of the field is left as it was:
\* currency, taxpayer ID, dates, VAT rate, totals and line totals.
C4_WrittenUnderTheKeyRead ==
    pc = "done" =>
        \A j \in 1..NRecords :
            /\ OnlyWritten(j, <<"Currency", "currency", "CurrencyCode">>,
                           FirstKey(Orig(j), <<"Currency", "currency", "CurrencyCode">>,
                                    HoldsValue))
            /\ OnlyWritten(j, <<"TPIN", "tpin", "TaxpayerTIN">>,
                           FirstKey(Orig(j), <<"TPIN", "tpin", "TaxpayerTIN">>, IsDefined))
            /\ \A d \in 1..Len(DateFields) :
                   Prop(Returned(j), DateFields[d]) # Prop(Orig(j), DateFields[d])
                   => Truthy(Prop(Orig(j), DateFields[d]))
            /\ OnlyWritten(j, <<"VATRate", "vatRate">>,
                           FirstKey(Orig(j), <<"VATRate", "vatRate">>, IsDefined))
            /\ OnlyWritten(j, <<"VATAmount", "vatAmount">>,
                           FirstKey(Orig(j), <<"VATAmount", "vatAmount">>, IsDefined))
            /\ OnlyWritten(j, <<"GrandTotal", "grandTotal">>,
                           FirstKey(Orig(j), <<"GrandTotal", "grandTotal">>, IsDefined))
            /\ OnlyWritten(j, <<"TaxableAmount", "taxableAmount">>,
                           FirstKey(Orig(j), <<"TaxableAmount", "taxableAmount">>, IsDefined))
            /\ LinesOnlyWritten(j)

\* the invoice number of a record as the duplicate check resolves it: the first
\* alias that holds a value, as trimmed text; Null when no alias holds one
InvoiceNumberOf(record) ==
    LET v == OrElse(OrElse(extractPrimitive(Prop(record, "InvoiceNumber")),
                           extractPrimitive(Prop(record, "invoiceNumber"))),
                    extractPrimitive(Prop(record, "InvoiceNo")))
    IN IF Truthy(v) THEN Str(trim(String(v))) ELSE Null
\* the earlier records of the batch with the invoice number of record j
Earlier(j) ==
    {i \in 1..(j - 1) :
        InvoiceNumberOf(Orig(j)) # Null /\ InvoiceNumberOf(Orig(i)) = InvoiceNumberOf(Orig(j))}
Duplicates(j) == {k \in IssuesOf(j) : result.issues[k].category = "duplicate"}

\* C5: record j of a batch gets an error/duplicate issue if and only if an
\* earlier record of the batch has the same invoice number; the issue names the
\* first record with that number (from 1), is not auto-fixed, and the invoice
\* number of record j stays as it was in fixedData.
C5_DuplicateIffEarlier ==
    pc = "done" =>
        \A j \in 1..NRecords :
            /\ Duplicates(j) # {} <=> Earlier(j) # {}
            /\ \A k \in Duplicates(j) :
                  /\ result.issues[k].severity = "error"
                  /\ result.issues[k].field = "InvoiceNumber"
                  /\ ~result.issues[k].autoFixed
                  /\ result.issues[k].first = Least(Earlier(j))
                  /\ \A key \in {"InvoiceNumber", "invoiceNumber", "InvoiceNo"} :
                        Prop(Returned(j), key) = Prop(Orig(j), key)
\* a batch of three whose third record repeats the first and not the second
C5_Witness ==
    /\ pc = "done"
    /\ NRecords = 3
    /\ Duplicates(2) = {}
    /\ \E k \in Duplicates(3) : result.issues[k].first = 1
    /\ InvoiceNumberOf(Orig(2)) # Null

\* the result of validating file i by itself, with a dedup table of its own
Alone(i, lenient) == Result(Run(Begin(Decode(files[i]).data, EmptyMap), lenient))
\* file i holds the same invoice number twice
RepeatsWithin(i) ==
    LET d == Decode(files[i]).data
    IN \E a, b \in 1..Len(Records(d)) :
          /\ a < b
          /\ InvoiceNumberOf(RecordAt(d, a)) # Null
          /\ InvoiceNumberOf(RecordAt(d, a)) = InvoiceNumberOf(RecordAt(d, b))
\* files i and j hold a common invoice number
Share(i, j) ==
    LET di == Decode(files[i]).data
        dj == Decode(files[j]).data
    IN \E a \in 1..Len(Records(di)), b \in 1..Len(Records(dj)) :
          /\ InvoiceNumberOf(RecordAt(di, a)) # Null
          /\ InvoiceNumberOf(RecordAt(di, a)) = InvoiceNumberOf(RecordAt(dj, b))

\* C6: the dedup table is fresh in every call: however the reads of the files
\* of an upload interleave, the result of a file is the result of validating
\* it by itself, and it holds a duplicate issue only for an invoice number the
\* file itself holds twice.
C6_NoLeakAcrossFiles ==
    \A i \in 1..Len(files) :
        reads[i] = "fulfilled" =>
            /\ \E lenient \in BOOLEAN : outcome[i].result = Alone(i, lenient)
            /\ (\E k \in 1..Len(outcome[i].result.issues) :
                    outcome[i].result.issues[k].category = "duplicate")
               => RepeatsWithin(i)
\* two files with a common invoice number, both processed, the second after
\* the first
C6_Witness ==
    /\ Len(files) = 2
    /\ handler = "done"
    /\ Share(1, 2)
    /\ ~RepeatsWithin(1) /\ ~RepeatsWithin(2)
    /\ lastSeen # EmptyMap

\* file i fails to decode: no supported kind, or text its decoder refuses
FailsToDecode(i) == fileType(files[i]) = "none" \/ ~Decode(files[i]).ok

\* C7: a file that fails to decode is fatal for that file only: once the
\* handler and all reads are through, the result of every other file of the
\* upload is among the stored results.
C7_OthersStillAvailable ==
    ( /\ handler \in {"done", "failed"}
      /\ \A i \in 1..Len(files) : reads[i] \in {"fulfilled", "rejected"}
      /\ \A i \in 1..Len(files) : reads[i] = "rejected" => FailsToDecode(i) )
    => \A i \in 1..Len(files) :
          ~FailsToDecode(i) =>
              \E k \in 1..Len(processedFiles) : processedFiles[k] = outcome[i]

StepNames == <<"mandatory", "invoiceNumber", "currency", "tpin", "dates", "vatRate",
               "lineItems", "totals", "schema">>
\* every step of every one of n records, in order
AllSteps(n) ==
    [k \in 1..(Len(StepNames) * n) |->
        <<(k - 1) \div Len(StepNames) + 1, StepNames[((k - 1) % Len(StepNames)) + 1]>>]
LacksStructure(record) ==
    \E i \in 1..Len(requiredFields) :
        /\ Prop(record, requiredFields[i].name) = Undef
        /\ Prop(record, requiredFields[i].lower) = Undef
        /\ Prop(record, requiredFields[i].camel) = Undef

\* C8: a call that returns has run every rule step on every record, in order,
\* whatever errors the steps raised on the way; in particular the last step of
\* every record has emitted its issue wherever the record calls for it.
C8_EveryStepOnEveryRecord ==
    pc = "done" =>
        /\ steps = AllSteps(NRecords)
        /\ \A j \in 1..NRecords :
              LacksStructure(Orig(j)) <=>
                  \E k \in IssuesOf(j) : result.issues[k].field = "Schema Validation"
\* a batch whose first record has a mandatory-field error and whose second
\* record still gets its structural error and its VAT rate fix
C8_Witness ==
    /\ pc = "done"
    /\ NRecords >= 2
    /\ \E k \in IssuesOf(1) :
          result.issues[k].severity = "error" /\ result.issues[k].category = "mandatory"
    /\ \E k \in IssuesOf(2) : result.issues[k].field = "Schema Validation"
    /\ \E k \in IssuesOf(2) :
          result.issues[k].category = "vat" /\ result.issues[k].autoFixed

\* the amount fields as the totals step names them
AmountField(record, upper, lower) == IF Prop(record, upper) # Undef THEN upper ELSE lower
\* an amount in whatever representation the decoder gave it
AmountOf(v) == parseNumber(extractPrimitive(v))
TaxableOf(j) == AmountOf(Prop(Orig(j), AmountField(Orig(j), "TaxableAmount", "taxableAmount")))
TaxableKnown(j) == TaxableOf(j) # Null /\ TaxableOf(j).n >= 0
\* the VAT rate of record j after the VAT-rate step: the stored rate when it
\* parses to a number in [0, 100], 16 when the step replaced it
RateAfterVatStep(j) ==
    LET v == AmountOf(Prop(Orig(j), AmountField(Orig(j), "VATRate", "vatRate")))
    IN IF v = Null \/ v.n < 0 \/ v.n > 100 * Unit THEN 16 * Unit ELSE v.n
ExpectedVAT(j) == Round2(TaxableOf(j).n * RateAfterVatStep(j), Unit * Unit * 100)
ExpectedGrandTotal(j) == Round2(TaxableOf(j).n + ExpectedVAT(j), Unit)
\* the recalculation issues of record j for a field
Rewrites(j, field) ==
    {k \in IssuesOf(j) :
        /\ result.issues[k].field = field /\ result.issues[k].line = 0
        /\ result.issues[k].category = "amount" /\ result.issues[k].autoFixed}
\* the amount of record j under `field` is `expected`: written so when it was
\* recalculated, and within 0.01 of it in fixedData either way
Recomputed(j, field, expected) ==
    /\ \A k \in Rewrites(j, field) :
          /\ result.issues[k].fixedValue = Str(NumToStr(expected))
          /\ Prop(Returned(j), field) = Num(expected)
    /\ ~Far(AmountOf(Prop(Returned(j), field)), expected)

\* C9: for a record whose taxable amount is known and not negative, the VAT
\* amount is recomputed as round2(taxable x r / 100) and the grand total as
\* round2(taxable + VAT), r being the rate after the VAT-rate step.
C9_TotalsFromTheCurrentRate ==
    pc = "done" =>
        \A j \in 1..NRecords :
            TaxableKnown(j) =>
                /\ Recomputed(j, AmountField(Orig(j), "VATAmount", "vatAmount"),
                              ExpectedVAT(j))
                /\ Recomputed(j, AmountField(Orig(j), "GrandTotal", "grandTotal"),
                              ExpectedGrandTotal(j))

\* the rate the recomputation of record j works with
RateUsed(j) ==
    LET v == parseNumber(OrElse(OrElse(Prop(Returned(j), "VATRate"),
                                       Prop(Returned(j), "vatRate")), N(16)))
    IN IF v = Null THEN 0 ELSE v.n
VATUsed(j) == Round2(TaxableOf(j).n * RateUsed(j), Unit * Unit * 100)
GrandTotalUsed(j) == Round2(TaxableOf(j).n + VATUsed(j), Unit)
\* the stored amount under `field` is overwritten, with one warning/amount
\* auto-fixed issue, exactly when it is missing or more than 0.01 off
OverwrittenIffOff(j, field, recomputed) ==
    LET stored == AmountOf(Prop(Orig(j), field))
    IN IF Far(stored, recomputed)
       THEN /\ Cardinality(Rewrites(j, field)) = 1
            /\ \A k \in Rewrites(j, field) : result.issues[k].severity = "warning"
            /\ Prop(Returned(j), field) = Num(recomputed)
       ELSE /\ Rewrites(j, field) = {}
            /\ Prop(Returned(j), field) = Prop(Orig(j), field)

\* C10: for a record whose taxable amount is known and not negative, the
\* stored VAT amount (and likewise the grand total) is overwritten, with one
\* warning/amount auto-fixed issue, if and only if it is missing or differs
\* from the recomputed value by more than 0.01, in whatever representation the
\* stored value came: number, numeric text or XML text node.
C10_OverwriteIffMissingOrOff ==
    pc = "done" =>
        \A j \in 1..NRecords :
            (TaxableKnown(j) /\ isObject(Records(input)[j])) =>
                /\ OverwrittenIffOff(j, AmountField(Orig(j), "VATAmount", "vatAmount"),
                                     VATUsed(j))
                /\ OverwrittenIffOff(j, AmountField(Orig(j), "GrandTotal", "grandTotal"),
                                     GrandTotalUsed(j))

\* the line items of a record as the line-item step walks them: the sequence
\* under the alias that holds a value, a LineItem wrapper opened
LinesField(record) == IF Truthy(Prop(record, "LineItems")) THEN "LineItems" ELSE "lineItems"
LinesOf(record) ==
    LET raw == Prop(record, LinesField(record))
        li == Prop(raw, "LineItem")
    IN IF isObject(raw) /\ "LineItem" \in DOMAIN raw.f
       THEN (IF isArray(li) THEN li.a ELSE <<li>>)
       ELSE IF isArray(raw) THEN raw.a ELSE <<>>
\* line l of record j as given, and as fixedData holds it
OrigLine(j, l) == Wrapped(LinesOf(Orig(j))[l])
ReturnedLine(j, l) == Prop(Returned(j), LinesField(Orig(j))).a[l]
\* the positions in the returned log of the issues of line l of record j
LineIssues(j, l) == {k \in IssuesOf(j) : result.issues[k].line = l}
Quantity(j, l) == AmountOf(Prop(OrigLine(j, l), AmountField(OrigLine(j, l), "Quantity", "quantity")))
UnitPrice(j, l) ==
    AmountOf(Prop(OrigLine(j, l), AmountField(OrigLine(j, l), "UnitPrice", "unitPrice")))
LineTotalField(j, l) == AmountField(OrigLine(j, l), "LineTotal", "lineTotal")
LineTotal(j, l) == AmountOf(Prop(OrigLine(j, l), LineTotalField(j, l)))
\* quantity > 0 and unit price >= 0
Computable(j, l) ==
    /\ Quantity(j, l) # Null /\ UnitPrice(j, l) # Null
    /\ Quantity(j, l).n > 0 /\ UnitPrice(j, l).n >= 0
ExpectedLineTotal(j, l) == Round2(Quantity(j, l).n * UnitPrice(j, l).n, Unit * Unit)
\* the stored line total is missing or differs from the expected one by more
\* than 0.01
LineTotalOff(j, l) ==
    \/ LineTotal(j, l) = Null
    \/ LineTotal(j, l).n - ExpectedLineTotal(j, l) > 10
    \/ ExpectedLineTotal(j, l) - LineTotal(j, l).n > 10

\* C11: for every line with quantity > 0 and unit price >= 0, when the stored
\* line total is missing or differs from round2(quantity x unit price) by more
\* than 0.01, fixedData holds round2(quantity x unit price) as the line's total
\* and the log holds exactly one auto-fixed issue for the line, a warning of
\* category amount on the line total; when the stored total is within 0.01, the
\* line is unchanged in fixedData and the log holds no auto-fixed issue and no
\* line-total issue for the line.
C11_LineTotalRecomputed ==
    pc = "done" =>
        \A j \in 1..NRecords :
            \A l \in 1..Len(LinesOf(Orig(j))) :
                Computable(j, l) =>
                    LET fixes == {k \in LineIssues(j, l) : result.issues[k].autoFixed}
                    IN IF LineTotalOff(j, l)
                       THEN /\ Prop(ReturnedLine(j, l), LineTotalField(j, l))
                                 = Num(ExpectedLineTotal(j, l))
                            /\ Cardinality(fixes) = 1
                            /\ \A k \in fixes :
                                  /\ result.issues[k].severity = "warning"
                                  /\ result.issues[k].category = "amount"
                                  /\ result.issues[k].field = LineTotalField(j, l)
                       ELSE /\ ReturnedLine(j, l) = LinesOf(Orig(j))[l]
                            /\ fixes = {}
                            /\ \A k \in LineIssues(j, l) :
                                  result.issues[k].field # LineTotalField(j, l)

CurrencyAliases == <<"Currency", "currency", "CurrencyCode">>
\* the alias record j holds its currency under ("" when it holds none), and
\* the currency as the rule compares it
CurrencyKey(j) == FirstKey(Orig(j), CurrencyAliases, HoldsValue)
CurrencyText(j) == trim(toUpperCase(String(extractPrimitive(Prop(Orig(j), CurrencyKey(j))))))
CurrencyIssues(j) == {k \in IssuesOf(j) : result.issues[k].category = "currency"}
\* one auto-fixed currency issue of the given severity that sets ZMW
OneCurrencyFix(j, severity) ==
    /\ Cardinality(CurrencyIssues(j)) = 1
    /\ \A k \in CurrencyIssues(j) :
          /\ result.issues[k].severity = severity
          /\ result.issues[k].autoFixed
          /\ result.issues[k].fixedValue = Str(T_ZMW)

\* C12: for every record, a currency that is present and is neither ZMW nor ZK
\* is rewritten to ZMW in fixedData with exactly one warning/currency auto-fixed
\* issue; a record without a currency gets Currency = ZMW with exactly one
\* info/currency auto-fixed issue; a record whose currency is ZMW or ZK keeps
\* its currency fields as they were and gets no currency issue.
C12_CurrencyRule ==
    pc = "done" =>
        \A j \in 1..NRecords :
            IF CurrencyKey(j) = ""
            THEN /\ Prop(Returned(j), "Currency") = Str(T_ZMW)
                 /\ OneCurrencyFix(j, "info")
            ELSE IF CurrencyText(j) \in {T_ZMW, T_ZK}
            THEN /\ \A i \in 1..Len(CurrencyAliases) :
                        Prop(Returned(j), CurrencyAliases[i]) = Prop(Orig(j), CurrencyAliases[i])
                 /\ CurrencyIssues(j) = {}
            ELSE /\ Prop(Returned(j), CurrencyKey(j)) = Str(T_ZMW)
                 /\ OneCurrencyFix(j, "warning")

----------------------------------------------------------------------------
(* The normalizers by themselves: normalizeTpin and normalizeDate applied to *)
(* one value                                                                 *)

\* the longest run of digits a taxpayer ID text holds
MaxDigits == 12
DigitRun(n) == SubSeq(<<"1","2","3","4","5","6","7","8","9","0","1","2","3">>, 1, n)
\* the same digits with a dash after every third one
RECURSIVE Dashed(_)
Dashed(ds) ==
    IF Len(ds) <= 3 THEN ds ELSE SubSeq(ds, 1, 3) \o <<"-">> \o Dashed(SubSeq(ds, 4, Len(ds)))
TpinValues ==
    UNION { { Str(DigitRun(n)), Str(Dashed(DigitRun(n))),
              Str(<<"T", "P", "I", "N", " ">> \o DigitRun(n) \o <<" ">>) } : n \in 0..MaxDigits }
    \cup { N(0), N(123456), N(1234567), Num(123456789), N(0 - 123456),
           Null, Undef, Bool(TRUE), EmptyObj, Str(T_junk), TextNode(T_tpin9),
           Arr(<<N(12345), N(67890)>>), Arr(<<Str(T_tpin9)>>) }
DateValues ==
    { Str(<<"2", "0", "2", "5", "-", "0", "2", "-", "0", "1">>),
      Str(<<"2", "0", "2", "5", "-", "2", "-", "1">>),
      Str(<<"2", "0", "2", "5", "/", "0", "2", "/", "0", "1">>),
      Str(<<"2", "0", "2", "5", "/", "2", "/", "1">>),
      Str(<<"0", "1", "/", "0", "2", "/", "2", "0", "2", "5">>),
      Str(<<"1", "/", "2", "/", "2", "0", "2", "5">>),
      Str(<<"0", "1", "/", "2", "/", "2", "0", "2", "5">>),
      Str(<<"1", "-", "2", "-", "2", "0", "2", "5">>),
      Str(<<"0", "1", "-", "0", "2", "-", "2", "0", "2", "5">>),
      Str(<<"1", ".", "2", ".", "2", "0", "2", "5">>),
      Str(<<"0", "1", ".", "0", "2", ".", "2", "0", "2", "5">>),
      Str(<<" ", "2", "0", "2", "5", "-", "0", "2", "-", "0", "1", " ">>),
      Str(<<"2", "0", "2", "5", "-", "0", "2", "-", "3", "0">>),
      Str(<<"2", "0", "2", "5", "-", "0", "4", "-", "3", "1">>),
      Str(<<"2", "0", "2", "4", "-", "0", "2", "-", "2", "9">>),
      Str(<<"2", "0", "2", "5", "-", "0", "2", "-", "2", "9">>),
      Str(<<"2", "0", "2", "5", "-", "1", "3", "-", "0", "1">>),
      Str(<<"2", "0", "2", "5", "-", "0", "0", "-", "1", "0">>),
      Str(<<"2", "0", "2", "5", "-", "0", "2", "-", "0", "0">>),
      Str(<<"2", "0", "2", "5", "-", "0", "6", "-", "1", "5">>),
      Str(<<"2", "0", "2", "5", "-", "0", "6", "-", "1", "6">>),
      Str(<<"2", "0", "3", "0", "-", "0", "1", "-", "0", "1">>),
      Str(<<"1", "9", "9", "9", "-", "1", "2", "-", "3", "1">>),
      Str(<<"2", "0", "0", "0", "-", "0", "1", "-", "0", "1">>),
      Str(<<"3", "0", "/", "0", "2", "/", "2", "0", "2", "5">>),
      Str(<<"3", "1", "/", "1", "2", "/", "2", "0", "2", "4">>),
      Str(<<"1", "2", "/", "3", "1", "/", "2", "0", "2", "4">>),
      Str(<<"0", "2", "/", "0", "1", "/", "2", "5">>),
      Str(<<"2", "0", "2", "5", "-", "0", "2", "-", "0", "1", "T", "1", "0", ":", "0", "0">>),
      Str(<<"1", "6", "8", "2", "8", "9", "9", "2", "0", "0">>),
      Str(<<"1", "6", "8", "2", "8", "9", "9", "2", "0", "0", "0", "0", "0">>),
      Str(<<"1", "6", "8", "2", "8", "9", "9", "2", "0", "0", "0">>),
      Str(<<"0", "1", "0", "0", "0", "0", "0", "0", "0", "0">>),
      Str(<<"1", "2", "3", "4", "5", "6", "7", "8", "9">>),
      Str(<<"1", "2", "3", "4", "5", "6", "7", "8", "9", "0", "1", "2", "3", "4">>),
      Str(<<"j", "u", "n", "k">>),
      Str(<<>>) }
    \cup { N(5), N(1682899), Null, Undef, Bool(TRUE), TextNode(T_date), Arr(<<Str(T_date)>>) }
NormalizerInputs == TpinValues \cup DateValues

\* const r = normalizeTpin(value)
ApplyNormalizeTpin ==
    /\ pc = "value"
    /\ result' = normalizeTpin(input)
    /\ pc' = "tpin"
    /\ UNCHANGED <<input, data, fixedRecords, fixedRecord, issues, seen, index, steps, fileVars>>

\* normalizeTpin(r.normalized); steps keeps the results so far
ReapplyNormalizeTpin ==
    /\ pc = "tpin"
    /\ result' = normalizeTpin(Str(result.normalized))
    /\ steps' = Append(steps, result)
    /\ pc' = "tpinAgain"
    /\ UNCHANGED <<input, data, fixedRecords, fixedRecord, issues, seen, index, fileVars>>

\* normalizeDate(value), on an engine that is strict or lenient about a day
\* past the end of its month
ApplyNormalizeDate ==
    \E lenient \in BOOLEAN :
        /\ pc = "value"
        /\ result' = normalizeDate(input, lenient)
        /\ pc' = "date"
        /\ UNCHANGED <<input, data, fixedRecords, fixedRecord, issues, seen, index, steps,
                       fileVars>>

InitNormalize ==
    /\ input \in NormalizerInputs
    /\ data = Null /\ fixedRecords = <<>> /\ fixedRecord = EmptyObj
    /\ issues = <<>> /\ seen = EmptyMap /\ index = 0 /\ result = Null /\ steps = <<>>
    /\ pc = "value"
    /\ files = <<>>
    /\ NoUpload

NextNormalize ==
    \/ ApplyNormalizeTpin
    \/ ReapplyNormalizeTpin
    \/ ApplyNormalizeDate

SpecNormalize == InitNormalize /\ [][NextNormalize]_vars

\* the digits of a value: those of its text, none for null and undefined
DigitsOf(value) ==
    IF value.t \in {"null", "undef"} THEN <<>> ELSE KeepChars(StringValue(value), DigitSet)
\* the taxpayer ID and the confidence the digits d call for
TpinFor(d) ==
    IF Len(d) = 10 THEN [normalized |-> d, confidence |-> "high"]
    ELSE IF Len(d) = 9 THEN [normalized |-> <<"0">> \o d, confidence |-> "medium"]
    ELSE IF Len(d) > 10 THEN [normalized |-> SubSeq(d, 1, 10), confidence |-> "medium"]
    ELSE IF Len(d) >= 6
         THEN [normalized |-> d \o [i \in 1..(10 - Len(d)) |-> "0"], confidence |-> "low"]
    ELSE [normalized |-> [i \in 1..10 |-> "0"], confidence |-> "low"]

SpecifiedDateFormats ==
    << [sep |-> "-", yearFirst |-> TRUE,  a1 |-> 4, b1 |-> 4, a3 |-> 1, b3 |-> 2],
       [sep |-> "/", yearFirst |-> TRUE,  a1 |-> 4, b1 |-> 4, a3 |-> 1, b3 |-> 2],
       [sep |-> "/", yearFirst |-> FALSE, a1 |-> 1, b1 |-> 2, a3 |-> 4, b3 |-> 4],
       [sep |-> "-", yearFirst |-> FALSE, a1 |-> 1, b1 |-> 2, a3 |-> 4, b3 |-> 4],
       [sep |-> ".", yearFirst |-> FALSE, a1 |-> 1, b1 |-> 2, a3 |-> 4, b3 |-> 4] >>
\* the date and the confidence the specified definition gives a value
DateFor(value) ==
    IF value.t \in {"null", "undef"} THEN [normalized |-> Today, confidence |-> "low"]
    ELSE LET s == trim(StringValue(value))
             hits == SelectSeq(SpecifiedDateFormats, LAMBDA f : TryFormat(s, f, FALSE) # Null)
         IN IF hits # <<>>
            THEN [normalized |-> TryFormat(s, hits[1], FALSE).s, confidence |-> "high"]
            ELSE IF AllDigits(s) /\ Len(s) \in 10..13
                 THEN [normalized |->
                           CivilFromDays(DivDigits(s, IF Len(s) = 10 THEN 86400 ELSE 86400000,
                                                   0, 0)),
                       confidence |-> "medium"]
            ELSE [normalized |-> Today, confidence |-> "low"]

\* C14: normalizeDate agrees with its specified definition on every input:
\* trimmed text in one of the five forms (day and month of 1 or 2 digits, year
\* of 4) that is a valid calendar date, not later than now, of a year from 2000
\* to the next one gives the zero-padded date with confidence high; otherwise
\* text of 10 to 13 digits gives the date of that timestamp (10 digits: seconds,
\* else milliseconds) with confidence medium; anything else gives the current
\* date with confidence low.
C14_DateAsSpecified == pc = "date" => result = DateFor(input)

TpinAliases == <<"TPIN", "tpin", "TaxpayerTIN">>
\* the alias record j carries its taxpayer ID under ("" when under none)
TpinKey(j) == FirstKey(Orig(j), TpinAliases, IsDefined)
\* the text of a stored value is exactly 10 digits
TenDigits(v) == ~StringThrows(v) /\ Len(String(v)) = 10 /\ AllDigits(String(v))

\* C15: for every record that carries a taxpayer ID under one of its alias
\* keys, the value fixedData holds under that key is in canonical form: its
\* text is exactly 10 digits, whatever the decoder's representation of the
\* original value and whether or not the original already had 10 digits.
C15_TpinCanonicalInFixedData ==
    pc = "done" =>
        \A j \in 1..NRecords :
            TpinKey(j) # "" => TenDigits(Prop(Returned(j), TpinKey(j)))

\* the fields of record j (line l of it; 0: the record itself) that an
\* auto-fixed issue names: the fields a rule corrected
FixedFields(j, l) ==
    {result.issues[k].field :
        k \in {k \in IssuesOf(j) : result.issues[k].autoFixed /\ result.issues[k].line = l}}
\* mapping f holds every member of mapping o outside `corrected` with its value
MembersKept(o, f, corrected) ==
    isObject(o) =>
        /\ isObject(f)
        /\ \A key \in DOMAIN o.f \ corrected : Prop(f, key) = o.f[key]
\* the line-items container o of record j is found as f: a sequence as a
\* sequence of the same length, a LineItem wrapper as a LineItem wrapper, and
\* line by line every member that no rule corrected
RECURSIVE LinesKept(_, _, _)
LinesKept(o, f, j) ==
    IF isArray(o)
    THEN /\ isArray(f)
         /\ Len(f.a) = Len(o.a)
         /\ \A l \in 1..Len(o.a) :
               IF isObject(o.a[l]) THEN MembersKept(o.a[l], f.a[l], FixedFields(j, l))
               ELSE f.a[l] = o.a[l]
    ELSE IF isObject(o) /\ "LineItem" \in DOMAIN o.f
    THEN /\ isObject(f)
         /\ MembersKept(o, f, {"LineItem"})
         /\ IF isArray(o.f["LineItem"]) THEN LinesKept(o.f["LineItem"], Prop(f, "LineItem"), j)
            ELSE IF isObject(o.f["LineItem"])
            THEN MembersKept(o.f["LineItem"], Prop(f, "LineItem"), FixedFields(j, 1))
            ELSE Prop(f, "LineItem") = o.f["LineItem"]
    ELSE f = o
\* record j is found in fixedData at the key path it has in originalData, with
\* every member that no rule corrected
RecordKept(j) ==
    LET o == GetPath(input, RecordPath(input, j))
        f == GetPath(result.fixedData, RecordPath(input, j))
    IN IF isObject(Records(input)[j])
       THEN /\ MembersKept(o, f, FixedFields(j, 0) \cup {LinesField(o)})
            /\ LinesField(o) \in DOMAIN o.f
               => LinesKept(o.f[LinesField(o)], Prop(f, LinesField(o)), j)
       ELSE f = o

\* C16: fixedData has the shape of originalData: a single record for a single
\* record and a sequence of the same length for a sequence; every field that no
\* rule corrected is found in fixedData at the key path it has in originalData,
\* with the same value, wrapper levels and the line-items container included.
C16_SameShape ==
    pc = "done" =>
        /\ isArray(input) <=> isArray(result.fixedData)
        /\ isArray(input) => Len(result.fixedData.a) = Len(input.a)
        /\ \A j \in 1..NRecords : RecordKept(j)

\* value v reads as the text fixedValue
RendersAs(v, fixedValue) == ~StringThrows(v) /\ Str(String(v)) = fixedValue

\* C17: for every auto-fixed issue of the returned log, fixedData holds the
\* correction: the field the issue names, in the record (and the line) its
\* locator points to, holds the issue's fixedValue, up to the rendering of
\* numbers as text; for every input shape.
C17_AutoFixedIsInFixedData ==
    pc = "done" =>
        \A k \in 1..Len(result.issues) :
            result.issues[k].autoFixed =>
                LET j == result.issues[k].rec
                    l == result.issues[k].line
                    holder == IF l = 0 THEN Returned(j) ELSE ReturnedLine(j, l)
                IN RendersAs(Prop(holder, result.issues[k].field), result.issues[k].fixedValue)

----------------------------------------------------------------------------
(* C18: the round trip through a download *)

\* the scalar field values of a decoded value: <<field name, text>>, a text
\* node counting as the value of the field that holds it
RECURSIVE FieldValues(_, _)
FieldValues(v, key) ==
    CASE v.t \in {"str", "num", "bool"} -> {<<key, String(v)>>}
      [] v.t = "arr" -> UNION {FieldValues(v.a[i], key) : i \in 1..Len(v.a)}
      [] v.t = "obj" ->
           UNION {FieldValues(v.f[k], IF k = "#text" THEN key ELSE k) : k \in DOMAIN v.f}
      [] OTHER -> {}

\* C18: whatever kind the corrected data is downloaded in, every scalar field
\* value of fixedData is found, under its field and with the same text, in what
\* the decoder of that kind reads back.
ScalarFields(v) == {p \in FieldValues(v, "") : p[1] # ""}
C18_RoundTripKeepsValues ==
    pc = "downloaded" => ScalarFields(result.fixedData) \subseteq ScalarFields(download.data)

----------------------------------------------------------------------------
(* The statistics of an issue log *)

\* the longest log
MaxLog == 2
\* an issue with no category (the member is optional)
NoCategory == ""
LogIssue(severity, autoFixed, category) == Issue(severity, "Currency", 1, 0, Undef, Undef, autoFixed, "high", category, 0)
IssueChoices ==
    { LogIssue(severity, autoFixed, category) :
        severity \in {"error", "warning", "info"}, autoFixed \in BOOLEAN,
        category \in {"amount", "currency", NoCategory} }
IssueLogs == UNION { [1..n -> IssueChoices] : n \in 0..MaxLog }

\* issues.filter(test).length
Count(log, test(_)) == Len(SelectSeq(log, test))
\* issue.category || 'other'
categoryOf(issue) == IF issue.category = NoCategory THEN "other" ELSE issue.category
\* validation.ts getValidationStats: the forEach that fills byCategory
byCategory(log) ==
    [c \in {categoryOf(log[i]) : i \in 1..Len(log)} |->
        Count(log, LAMBDA issue : categoryOf(issue) = c)]
\* manualReviewNeeded counting every error, auto-fixed or not
manualReviewNeededAnyError(log) == Count(log, LAMBDA i : i.severity = "error")
\* validation.ts getValidationStats: manualReviewNeeded
manualReviewNeeded(log) == Count(log, LAMBDA i : i.severity = "error" /\ ~i.autoFixed)
\* validation.ts getValidationStats
getValidationStats(log) ==
    [totalIssues |-> Len(log),
     criticalErrors |-> Count(log, LAMBDA i : i.severity = "error"),
     warnings |-> Count(log, LAMBDA i : i.severity = "warning"),
     infoMessages |-> Count(log, LAMBDA i : i.severity = "info"),
     autoFixed |-> Count(log, LAMBDA i : i.autoFixed),
     manualReviewNeeded |-> manualReviewNeeded(log),
     byCategory |-> byCategory(log)]

\* zraValidationRules.ts ValidationStats: the reduce over the issues, one issue
\* at a time
statsStep(acc, issue) ==
    [totalIssues |-> acc.totalIssues + 1,
     criticalErrors |-> acc.criticalErrors + (IF issue.severity = "error" THEN 1 ELSE 0),
     warnings |-> acc.warnings + (IF issue.severity = "warning" THEN 1 ELSE 0),
     infoMessages |-> acc.infoMessages + (IF issue.severity = "info" THEN 1 ELSE 0),
     autoFixed |-> acc.autoFixed + (IF issue.autoFixed THEN 1 ELSE 0),
     manualReviewNeeded |-> acc.manualReviewNeeded
                            + (IF issue.severity = "error" /\ ~issue.autoFixed THEN 1 ELSE 0),
     byCategory |-> Put(acc.byCategory, categoryOf(issue),
                        (IF categoryOf(issue) \in DOMAIN acc.byCategory
                         THEN acc.byCategory[categoryOf(issue)] ELSE 0) + 1)]
NoStats == [totalIssues |-> 0, criticalErrors |-> 0, warnings |-> 0, infoMessages |-> 0, autoFixed |-> 0, manualReviewNeeded |-> 0, byCategory |-> EmptyMap]
RECURSIVE reduceStats(_, _, _)
reduceStats(acc, log, i) ==
    IF i > Len(log) THEN acc ELSE reduceStats(statsStep(acc, log[i]), log, i + 1)
\* Math.round(p / q * 100) for 0 <= p <= q, 0 < q
RoundPercent(p, q) == (200 * p + q) \div (2 * q)
\* zraValidationRules.ts ValidationStats: complianceRate
complianceRate(stats) ==
    IF stats.totalIssues > 0 THEN RoundPercent(stats.autoFixed, stats.totalIssues) ELSE 100

\* FileUpload's call of getValidationStats on the log of a result
CallGetValidationStats ==
    /\ pc = "log"
    /\ result' = [stats |-> getValidationStats(issues)]
    /\ pc' = "stats"
    /\ UNCHANGED <<input, data, fixedRecords, fixedRecord, issues, seen, index, steps, fileVars>>
\* the ValidationStats panel reduces the same log and derives the percentage
ShowValidationStats ==
    /\ pc = "stats"
    /\ result' = [stats |-> result.stats, shown |-> reduceStats(NoStats, issues, 1),
                  complianceRate |-> complianceRate(reduceStats(NoStats, issues, 1))]
    /\ pc' = "shown"
    /\ UNCHANGED <<input, data, fixedRecords, fixedRecord, issues, seen, index, steps, fileVars>>

\* the summary of any log; input keeps the log as it was handed over
InitStats ==
    /\ issues \in IssueLogs
    /\ input = issues
    /\ data = Null /\ fixedRecords = <<>> /\ fixedRecord = EmptyObj
    /\ seen = EmptyMap /\ index = 0 /\ result = Null /\ steps = <<>>
    /\ pc = "log"
    /\ files = <<>>
    /\ NoUpload
NextStats ==
    \/ CallGetValidationStats
    \/ ShowValidationStats
SpecStats == InitStats /\ [][NextStats]_vars

\* the number of issues of the log handed over that pass a test, and the sum
\* of the counts of a category table
Tally(test(_)) == Cardinality({i \in 1..Len(input) : test(input[i])})
RECURSIVE SumOf(_)
SumOf(f) ==
    IF DOMAIN f = {} THEN 0
    ELSE LET k == CHOOSE k \in DOMAIN f : TRUE
         IN f[k] + SumOf([j \in DOMAIN f \ {k} |-> f[j]])
Summarizes(stats) ==
    /\ stats.totalIssues = Len(input)
    /\ stats.totalIssues = stats.criticalErrors + stats.warnings + stats.infoMessages
    /\ stats.totalIssues = SumOf(stats.byCategory)
    /\ stats.autoFixed = Tally(LAMBDA i : i.autoFixed)
    /\ stats.manualReviewNeeded = Tally(LAMBDA i : i.severity = "error" /\ ~i.autoFixed)
    /\ input = <<>> =>
          /\ stats.criticalErrors = 0 /\ stats.warnings = 0 /\ stats.infoMessages = 0
          /\ stats.autoFixed = 0 /\ stats.manualReviewNeeded = 0
          /\ DOMAIN stats.byCategory = {}

\* C19: the summary of a log counts the issues by severity, by autoFixed and by
\* category: the total is the sum of the three severities and of the category
\* counts, autoFixed counts the auto-fixed issues, manualReviewNeeded the errors
\* not auto-fixed; the empty log gives zero everywhere, no category and a
\* percentage all the same; the log is left as it was.
C19_StatsSummarizeLog ==
    /\ pc \in {"stats", "shown"} => Summarizes(result.stats) /\ issues = input
    /\ pc = "shown" => Summarizes(result.shown) /\ result.complianceRate \in 0..100
C19_Witness ==
    /\ pc = "shown"
    /\ Len(input) = 2
    /\ result.stats.manualReviewNeeded = 1
    /\ result.stats.criticalErrors = 2
    /\ result.stats.autoFixed = 1
    /\ "other" \in DOMAIN result.stats.byCategory
    /\ result.complianceRate = 50

----------------------------------------------------------------------------
(* C20: lines with a negative unit price or a quantity that is not positive *)

\* the quantity of the line is zero or negative, or its unit price negative
Refused(j, l) ==
    \/ Quantity(j, l) # Null /\ Quantity(j, l).n <= 0
    \/ UnitPrice(j, l) # Null /\ UnitPrice(j, l).n < 0
LineAmountKeys == {"Quantity", "quantity", "UnitPrice", "unitPrice", "LineTotal", "lineTotal"}

\* C20: every line whose unit price is negative or whose quantity is zero or
\* negative has an error of category amount in the log that is not auto-fixed,
\* the result is not valid, and fixedData holds the line's quantity, unit price
\* and line total as they were given.
C20_RefusedLinesKept ==
    pc = "done" =>
        \A j \in 1..NRecords :
            \A l \in 1..Len(LinesOf(Orig(j))) :
                Refused(j, l) =>
                    /\ \E k \in LineIssues(j, l) :
                          /\ result.issues[k].severity = "error"
                          /\ result.issues[k].category = "amount"
                          /\ ~result.issues[k].autoFixed
                    /\ ~result.isValid
                    /\ \A key \in LineAmountKeys :
                          Prop(ReturnedLine(j, l), key) = Prop(OrigLine(j, l), key)
\* the CSV rows Quantity,UnitPrice,LineTotal / 1,-10,-10 went through the call
C20_Witness ==
    /\ pc = "done"
    /\ input = Obj1("LineItems", Arr(<<Line(N(1), N(0 - 10), <<"LineTotal", N(0 - 10)>>)>>))
    /\ Refused(1, 1)
    /\ ~result.isValid
    /\ Prop(ReturnedLine(1, 1), "LineTotal") = N(0 - 10)

----------------------------------------------------------------------------
(* C21: the mandatory-field check *)

Spellings(fld) == {fld.name, fld.camel, fld.lower}
\* neither absent, nor null, nor the empty text
HasValue(v) == v.t \notin {"undef", "null"} /\ v # Str(<<>>)
\* the log, right after the check of the current record, reports the field
ReportedMissing(fld) ==
    \E k \in 1..Len(issues) :
        /\ issues[k].rec = index + 1
        /\ issues[k].field = fld.name
        /\ issues[k].severity = "error"
        /\ issues[k].category = "mandatory"
        /\ ~issues[k].autoFixed

\* C21: right after the mandatory-field check of a record, each of the six
\* mandatory fields is reported missing (error, mandatory, not auto-fixed) if
\* and only if none of its three spellings holds a value in the record.
C21_MandatoryIffAbsentEverywhere ==
    pc = "invoiceNumber" =>
        \A c \in 1..Len(MANDATORY_INVOICE_FIELDS) :
            ReportedMissing(MANDATORY_INVOICE_FIELDS[c])
            <=> \A sp \in Spellings(MANDATORY_INVOICE_FIELDS[c]) :
                   ~HasValue(Prop(RecordAt(input, index + 1), sp))

----------------------------------------------------------------------------
(* C22: the VAT-rate rule *)

VatField(j) == AmountField(Orig(j), "VATRate", "vatRate")
VatRate(j) == AmountOf(Prop(Orig(j), VatField(j)))
VatIssues(j) == {k \in IssuesOf(j) : result.issues[k].category = "vat"}
\* every VAT-rate issue of record j is of this severity and autoFixed value
VatIssuesAre(j, severity, autoFixed) ==
    \A k \in VatIssues(j) :
        /\ result.issues[k].severity = severity
        /\ result.issues[k].autoFixed = autoFixed
        /\ result.issues[k].field = VatField(j)

\* C22: a rate that is missing, unparseable or outside [0,100] is 16 in
\* fixedData and has exactly one warning/vat auto-fixed issue; a rate in
\* [0,100] other than 0 and 16 is kept and has exactly one info/vat issue that
\* is not auto-fixed; a rate of 0 or 16 is kept and has no VAT-rate issue; and
\* validateVATRate gives the same verdict on every numeric rate.
C22_VatRateRule ==
    pc = "done" =>
        \A j \in 1..NRecords :
            IF VatRate(j) = Null \/ VatRate(j).n < 0 \/ VatRate(j).n > 100 * Unit
            THEN /\ Prop(Returned(j), VatField(j)) = N(16)
                 /\ Cardinality(VatIssues(j)) = 1
                 /\ VatIssuesAre(j, "warning", TRUE)
                 /\ VatRate(j) # Null => validateVATRate(VatRate(j).n) = "invalid"
            ELSE IF VatRate(j).n \notin {0, 16 * Unit}
            THEN /\ Prop(Returned(j), VatField(j)) = Prop(Orig(j), VatField(j))
                 /\ Cardinality(VatIssues(j)) = 1
                 /\ VatIssuesAre(j, "info", FALSE)
                 /\ validateVATRate(VatRate(j).n) = "notice"
            ELSE /\ Prop(Returned(j), VatField(j)) = Prop(Orig(j), VatField(j))
                 /\ VatIssues(j) = {}
                 /\ validateVATRate(VatRate(j).n) = "valid"

----------------------------------------------------------------------------
(* C23: the shape of the line items *)

\* the line-items value of record j: the first spelling that is given
GivenLines(j) ==
    IF Prop(Orig(j), "LineItems").t \notin {"undef", "null"} THEN Prop(Orig(j), "LineItems")
    ELSE Prop(Orig(j), "lineItems")
\* the same with the LineItem wrapper removed
UnwrappedLines(j) ==
    IF isObject(GivenLines(j)) /\ "LineItem" \in DOMAIN GivenLines(j).f
    THEN (IF isArray(GivenLines(j).f["LineItem"]) THEN GivenLines(j).f["LineItem"]
          ELSE Arr(<<GivenLines(j).f["LineItem"]>>))
    ELSE GivenLines(j)
\* the issues of record j about the line items as a whole, and about its lines
ContainerIssues(j) ==
    {k \in IssuesOf(j) :
        result.issues[k].line = 0 /\ result.issues[k].field \in {"LineItems", "lineItems"}}
PerLineIssues(j) == {k \in IssuesOf(j) : result.issues[k].line > 0}
OneContainerError(j, category) ==
    /\ Cardinality(ContainerIssues(j)) = 1
    /\ \A k \in ContainerIssues(j) :
          /\ result.issues[k].severity = "error"
          /\ result.issues[k].category = category
          /\ ~result.issues[k].autoFixed
    /\ PerLineIssues(j) = {}

\* C23: a record with no line-items field has one error/mandatory issue for it;
\* one whose line items are an empty sequence has one error/mandatory issue;
\* one whose line items are no sequence after the LineItem wrapper is removed
\* (a text, a number, 0 included, a mapping without LineItem) has one
\* error/schema issue; none is auto-fixed, and issues about single lines exist
\* only for a non-empty sequence.
C23_LineItemsShape ==
    pc = "done" =>
        \A j \in 1..NRecords :
            IF GivenLines(j).t \in {"undef", "null"} THEN OneContainerError(j, "mandatory")
            ELSE IF ~isArray(UnwrappedLines(j)) THEN OneContainerError(j, "schema")
            ELSE IF UnwrappedLines(j).a = <<>> THEN OneContainerError(j, "mandatory")
            ELSE ContainerIssues(j) = {}

----------------------------------------------------------------------------
(* C24: severity follows the confidence of the normalizer *)

\* the taxpayer ID of record j as the step reads it: the first spelling given
TpinGiven(j) == \E key \in {"TPIN", "tpin", "TaxpayerTIN"} : Prop(Orig(j), key) # Undef
TpinRead(j) ==
    extractPrimitive(Prop(Orig(j), IF Prop(Orig(j), "TPIN") # Undef THEN "TPIN"
                                   ELSE IF Prop(Orig(j), "tpin") # Undef THEN "tpin"
                                   ELSE "TaxpayerTIN"))
DateRead(j, dateField) == extractPrimitive(Prop(Orig(j), dateField))
TpinCorrections(j) == {k \in IssuesOf(j) : result.issues[k].category = "tpin"}
DateCorrections(j) == {k \in IssuesOf(j) : result.issues[k].category = "date"}

----------------------------------------------------------------------------
(* C25: a CSV row with no quantity *)

\* C25: when a CSV of line items is processed, every row whose Quantity cell
\* is empty has at least one issue in the log that names that line.
C25_EmptyQuantityDetected ==
    pc = "done" /\ input \in CsvInputs =>
        \A l \in 1..Len(LinesOf(Orig(1))) :
            Prop(OrigLine(1, l), "Quantity") = Null => LineIssues(1, l) # {}

----------------------------------------------------------------------------
(* C26: the presence checks and the rule steps on aliases *)

InvoiceNumberAliases == <<"InvoiceNumber", "invoiceNumber", "InvoiceNo">>
GivenUnder(j, aliases) == \E a \in 1..Len(aliases) : HasValue(Prop(Orig(j), aliases[a]))
\* the log reports the field of record j as a missing mandatory field
MandatoryReports(j, name) ==
    \E k \in IssuesOf(j) :
        /\ result.issues[k].field = name
        /\ result.issues[k].severity = "error"
        /\ result.issues[k].category = "mandatory"
\* the schema issue of record j lists the field: its message joins the names
\* of the required fields that the record has under none of their spellings
SchemaReports(j, name) ==
    /\ \E k \in IssuesOf(j) :
          result.issues[k].category = "schema" /\ result.issues[k].field = "Schema Validation"
    /\ \E c \in 1..Len(requiredFields) :
          requiredFields[c].name = name /\ ~hasField(Orig(j), requiredFields[c])

\* C26: a record whose taxpayer ID is given under TPIN, tpin or TaxpayerTIN has
\* no error/mandatory and no error/schema issue that reports TPIN missing, and
\* a record whose invoice number is given under InvoiceNumber, invoiceNumber or
\* InvoiceNo has none that reports InvoiceNumber missing.
C26_PresenceAgreesOnAliases ==
    pc = "done" =>
        \A j \in 1..NRecords :
            /\ GivenUnder(j, TpinAliases)
                  => ~MandatoryReports(j, "TPIN") /\ ~SchemaReports(j, "TPIN")
            /\ GivenUnder(j, InvoiceNumberAliases)
                  => ~MandatoryReports(j, "InvoiceNumber")
                     /\ ~SchemaReports(j, "InvoiceNumber")

----------------------------------------------------------------------------
(* C27: one pass reaches a fixed point *)

\* C27: validating the corrected data of a result once more emits no
\* auto-fixed issue and returns corrected data equal to what it was given.
C27_FixedPointInOnePass ==
    pc = "again" =>
        /\ \A k \in 1..Len(again.issues) : ~again.issues[k].autoFixed
        /\ again.fixedData = result.fixedData

----------------------------------------------------------------------------
(* C28: a negative VAT amount or grand total is left for manual review *)

\* the issues of record j about the record's field `field`
FieldIssues(j, field) ==
    {k \in IssuesOf(j) : result.issues[k].field = field /\ result.issues[k].line = 0}
\* the amount under upper/lower of record j is negative; then the log holds an
\* error/amount issue for it, no issue reports the field auto-fixed, and
\* fixedData holds the value originalData holds
NegativeLeftAlone(j, upper, lower) ==
    LET field == AmountField(Orig(j), upper, lower)
    IN AmountOf(Prop(Orig(j), field)) # Null /\ AmountOf(Prop(Orig(j), field)).n < 0 =>
          /\ \E k \in FieldIssues(j, field) :
                /\ result.issues[k].severity = "error"
                /\ result.issues[k].category = "amount"
                /\ ~result.issues[k].autoFixed
          /\ \A k \in FieldIssues(j, field) : ~result.issues[k].autoFixed
          /\ Prop(Returned(j), field) = Prop(RecordAt(result.originalData, j), field)

\* C28: whenever the VAT amount or the grand total of a record is negative, the
\* log holds an error/amount issue for it that is not auto-fixed, no issue of
\* the pass reports that field as auto-fixed, and fixedData holds the field
\* with the value it has in originalData.
C28_NegativeTotalsKept ==
    pc = "done" =>
        \A j \in 1..NRecords :
            /\ NegativeLeftAlone(j, "VATAmount", "vatAmount")
            /\ NegativeLeftAlone(j, "GrandTotal", "grandTotal")

----------------------------------------------------------------------------
(* C29: the log only grows, in record order and in rule order *)

IsPrefix(s, t) == Len(s) <= Len(t) /\ SubSeq(t, 1, Len(s)) = s

\* the first and the last rule of the loop body that pushes an issue like
\* this one: 1 mandatory fields, 2 invoice number, 3 currency, 4 taxpayer ID,
\* 5 dates, 6 VAT rate, 7 line items, 8 totals, 9 schema
FirstRule(issue) ==
    CASE issue.category = "mandatory" ->
             IF issue.field \in {"LineItems", "lineItems"} THEN 7 ELSE 1
      [] issue.category = "duplicate" -> 2
      [] issue.category = "currency" -> 3
      [] issue.category = "tpin" -> 4
      [] issue.category = "date" -> 5
      [] issue.category = "vat" -> 6
      [] issue.category = "amount" -> IF issue.line > 0 THEN 7 ELSE 8
      [] issue.category = "schema" ->
             IF issue.field \in {"LineItems", "lineItems"} THEN 7 ELSE 9
      [] OTHER -> 0
LastRule(issue) ==
    IF issue.category = "mandatory" /\ issue.field = "InvoiceNumber" THEN 2
    ELSE FirstRule(issue)

\* issue a of the log may stand before issue b
MayPrecede(a, b) ==
    \/ a.rec < b.rec
    \/ /\ a.rec = b.rec
       /\ FirstRule(a) <= LastRule(b)
       /\ (a.line > 0 /\ b.line > 0 => a.line <= b.line)

Ordered(log) ==
    /\ \A k \in 1..Len(log) : log[k].rec \in 1..NRecords /\ FirstRule(log[k]) \in 1..9
    /\ \A k \in 1..Len(log) : \A m \in (k + 1)..Len(log) : MayPrecede(log[k], log[m])

\* C29: no step of a validateAndFix call takes an issue out of the log or puts
\* one before another: the log before a step is a prefix of the log after it,
\* and so of the returned log; in the returned log every issue carries a
\* record number from 1 to the number of records, the issues of a record stand
\* before those of the records after it, and the issues of one record stand in
\* the order of the rules, those of the line items in the order of the lines.
C29_LogAppendOnlyOrdered ==
    /\ [][IsPrefix(issues, issues')]_vars
    /\ [](pc = "done" => IsPrefix(issues, result.issues) /\ Ordered(result.issues))

\* a returned log with issues of two records, of three rules within the first
\* record, and of two lines
C29_Witness ==
    /\ pc = "done"
    /\ \E a, b, c, d \in 1..Len(result.issues) :
          /\ a < b /\ b < c /\ c < d
          /\ result.issues[a].rec = 1 /\ result.issues[b].rec = 1
          /\ result.issues[c].rec = 1 /\ result.issues[d].rec = 2
          /\ LastRule(result.issues[a]) < FirstRule(result.issues[b])
          /\ LastRule(result.issues[b]) < FirstRule(result.issues[c])
    /\ \E a, b \in 1..Len(result.issues) :
          /\ result.issues[a].line = 1 /\ result.issues[b].line = 2
          /\ result.issues[a].rec = result.issues[b].rec

----------------------------------------------------------------------------
(* C30: one corrected entry per processed file *)

\* the names of the corrected entries of the archive
CorrectedEntries == DOMAIN download.archive \ {ReportName}
\* the archive holds the text written for processed file i under its name
HoldsCorrected(i) ==
    /\ correctedName(processedFiles[i], download.format) \in CorrectedEntries
    /\ download.archive[correctedName(processedFiles[i], download.format)]
         = content(processedFiles[i], download.format)

\* C30: whatever the processed files and the output format, the archive holds
\* as many corrected entries as there are processed files, and for every
\* processed file the entry of its name holds the encoding of its fixedData.
C30_OneEntryPerFile ==
    handler = "downloaded" =>
        /\ ~download.raised
        /\ Cardinality(CorrectedEntries) = Len(processedFiles)
        /\ \A i \in 1..Len(processedFiles) : HoldsCorrected(i)

====
